---------------------------- MODULE Spec2Model ----------------------------
(***************************************************************************)
(* database-playground/sqlrunner-v2: the schema materializer               *)
(* (initializeThreadSafe / initialize), the Runner (NewSQLRunner, Query     *)
(* with its LRU result cache) and the HTTP service (Serve / findRunner).    *)
(*                                                                         *)
(* Goroutines are the processes of Procs.  Each action is one step of a    *)
(* goroutine between two points at which another goroutine can observe or  *)
(* change shared state (the two singleflight groups, the files under       *)
(* tmpDir, a Runner's LRU cache, the service's runners map).               *)
(*                                                                         *)
(* Schema texts and query texts are small naturals: schema 0 is a text the *)
(* engine rejects, query 0 a text the engine rejects; every other number   *)
(* is a valid text.                                                        *)
(***************************************************************************)
EXTENDS Integers, Sequences, FiniteSets, TLC

\* ------------------------------------------------------------- bounds
NumProcs == 2
NumSchemas == 1
NumQueries == 1
RowsPerQuery == 1
MaxRunners == 2
EarlierSchemas == 21
LruFreshKeys == 102
MaxFaults == 1
MaxInt == 120
MaxDigits == 2
MaxDp == 8
MaxBytes == 2
MaxChars == 2

\* ------------------------------------------------- program constants
ResultCacheSize == 100

Procs == 1..NumProcs
InvalidSchemas == {0}
InvalidQueries == {0}

\* Further query texts handed to Runner.Query: the empty text; a text whose
\* evaluation fails when the row after the last delivered one is stepped
\* (LEFT with a negative length in a later row); a statement that writes the
\* schema's database (INSERT, UPDATE, DELETE, DDL).
EmptyTexts == {-1}
LateFailQueries == {-2}
WriteQueries == {-3}

\* getSqliteInstance, line 230: the mode of the data source name.
OpenMode_ReadWrite == "rw"
OpenMode == "ro"
Schemas == InvalidSchemas \cup (1..NumSchemas)
Queries == InvalidQueries \cup (1..NumQueries)
AllSchemas == Schemas \cup (1..EarlierSchemas)

NoRunner == 0
NoErr == << >>

VARIABLES
  files,      \* the files under tmpDir: path -> content, DOMAIN = paths that exist
  openDbs,    \* number of *sql.DB handles opened and not closed
  faults,     \* number of failures the operating system or the driver has answered
  sf,         \* keys with a call in flight in the package's singleflight group sf
  sfgroup,    \* keys with a call in flight in SqlQueryService.sfgroup
  runnersMap, \* SqlQueryService.runners of the earlier revision (schema -> Runner)
  runners,    \* every SQLRunner constructed so far: <<[schema, cache]>>, id = index
  pc,         \* where each goroutine is
  op,         \* the entry point a goroutine is in: "none", "serve", "new", "query"
  stage,      \* the library function its getSqliteInstance call belongs to
  lschema,    \* schema text of the current call
  lquery,     \* query text of the current call
  lrunner,    \* Runner the goroutine holds (NoRunner = nil)
  lfile,      \* filename returned by initialize ("" = none)
  lerr,       \* error value held: the chain of wrappers, outermost first
  lrows,      \* rows collected so far by Query
  ctx,        \* the context of the Query call: "none" has no deadline, "live"
              \* has one that can elapse, "done" has one that has elapsed
  resp,       \* what the goroutine's last finished call returned (and, for a
              \* Query call, the kind of context it was given)
  builds,     \* history: times the schema text was run on a temporary database (saturating at 2)
  promoted,   \* history: renames into the final path per schema (saturating at 2)
  resolved,   \* history: schema -> Runner last returned by a successful findRunner
  succeeded,  \* history: <<schema, query>> pairs a Serve call has answered with success
  atStart,    \* history: what held when the goroutine's Serve call began
  peers,      \* history: goroutines whose findRunner for the same schema overlapped
  call,       \* the last direct call of a function of the package: its
              \* arguments and what it returned
  recency     \* history: per Runner, the query texts its cache was asked for or
              \* given, most recently used first

fsVars == <<files, openDbs, faults>>
sfVars == <<sf, sfgroup>>
procVars == <<pc, op, stage, lschema, lquery, lrunner, lfile, lerr, lrows, ctx, resp>>
histVars == <<builds, promoted, resolved, succeeded, atStart, peers, recency>>
vars == <<files, openDbs, faults, sf, sfgroup, runnersMap, runners, pc, op, stage, lschema,
          lquery, lrunner, lfile, lerr, lrows, ctx, resp, builds, promoted,
          resolved, succeeded, atStart, peers, recency, call>>
progVars == <<files, openDbs, faults, sf, sfgroup, runnersMap, runners, pc, op, stage,
              lschema, lquery, lrunner, lfile, lerr, lrows, ctx, resp, builds, promoted,
              resolved, succeeded, atStart, peers, recency>>

\* ------------------------------------------------------------ helpers
tmpDir == "/tmp/sqlrunner"

\* (mutant of schemaHashStr: every text has the same digest)
schemaHashStr_Collide(schema) == <<"sha1", 0>>

\* sha1.Sum + hex.EncodeToString: an injective image of the text (digest
\* collisions are not modelled).
schemaHashStr(schema) == <<"sha1", schema>>

schemaFilename(schema) == [dir |-> tmpDir, name |-> schemaHashStr(schema), ext |-> ".db"]
\* (mutant of tmpFilename: the database is built in place, at the final path)
tmpFilename_Final(schema) == schemaFilename(schema)
tmpFilename(schema) == [dir |-> tmpDir, name |-> schemaHashStr(schema), ext |-> ".db.tmp"]

Exists(path) == path \in DOMAIN files

WriteFile(fs, path, content) ==
  [p \in (DOMAIN fs) \cup {path} |-> IF p = path THEN content ELSE fs[p]]

RemoveFile(fs, path) == [p \in (DOMAIN fs) \ {path} |-> fs[p]]

\* os.Rename(old, new): new takes old's content, old is gone.
RenameFile(fs, old, new) ==
  [p \in ((DOMAIN fs) \ {old}) \cup {new} |-> IF p = new THEN fs[old] ELSE fs[p]]

Sat2(n) == IF n >= 2 THEN 2 ELSE n + 1

\* The error types of the repository: none of them has an Unwrap method, so
\* the chain errors.As walks ends at the first of them.
ErrorTypes == {"SchemaError", "QueryError", "BadPayloadError"}

\* errors.As(err, &SchemaError{}) and friends: a wrapper of the chain that
\* errors.As can reach has the kind.
ErrorsAs(err, kind) ==
  \E i \in 1..Len(err) :
    /\ err[i] = kind
    /\ \A j \in 1..(i - 1) : err[j] \notin ErrorTypes

Wrap(tag, err) == <<tag>> \o err

NewSchemaError_Plain(err) == Wrap("exec schema", err)
NewSchemaError(err) == Wrap("SchemaError", err)
NewQueryError(err) == Wrap("QueryError", err)


\* ------------------------------------------------- the embedded engine
\* QueryResult (nil = TRUE stands for a nil *QueryResult).
\* (mutant of NilResult: an empty result in the place of nil)
NilResult_Empty == [nil |-> FALSE, Columns |-> << >>, Rows |-> << >>]
NilResult == [nil |-> TRUE, Columns |-> << >>, Rows |-> << >>]

\* The column list the engine reports for a valid query text: none for the
\* empty text and for a statement that selects nothing.
EngineColumns_Value(query) == <<"value">>
EngineColumns(query) ==
  IF query \in EmptyTexts \cup WriteQueries
    THEN << >> ELSE <<"value">>

\* Row i of the cursor, each cell already passed through StringScanner: the
\* immutable artifact of `schema` answers `query` with the same rows each time.
EngineRow(schema, query, i) == << <<schema, query, i>> >>

\* Query texts 1..NumQueries select RowsPerQuery rows, and so many rows are
\* delivered before the step that fails; the other texts deliver no row.
EngineRowCount(schema, query) ==
  IF query \in (1..NumQueries) \cup LateFailQueries THEN RowsPerQuery ELSE 0

\* Stepping the row after the n-th fails in the engine: the driver's Next
\* returns the error, database/sql keeps it for Rows.Err and Rows.Next is false.
StepFails(schema, query, n) ==
  query \in LateFailQueries /\ n = EngineRowCount(schema, query)

\* Query, lines 190-203: one StringScanner per column, result.Scan into
\* them, one cell per scanner.
ScanRow_OneShort(cols, raw) == [j \in 1..(Len(cols) - 1) |-> raw[j]]
ScanRow(cols, raw) == [j \in 1..Len(cols) |-> raw[j]]

FullRows(schema, query) ==
  [i \in 1..EngineRowCount(schema, query) |-> EngineRow(schema, query, i)]

FullResult(schema, query) ==
  [nil |-> FALSE, Columns |-> EngineColumns(query), Rows |-> FullRows(schema, query)]

\* ------------------------------------------ lru.Cache[string, *QueryResult]
\* A cache is the list of its entries, most recently used first.
CacheKeys(cache) == {cache[i].key : i \in 1..Len(cache)}

CacheIndex(cache, key) == CHOOSE i \in 1..Len(cache) : cache[i].key = key

CacheValue(cache, key) == cache[CacheIndex(cache, key)].value

Without(cache, i) == SubSeq(cache, 1, i - 1) \o SubSeq(cache, i + 1, Len(cache))

\* (mutant of LruGet: a hit leaves the order alone)
LruGet_NoRefresh(cache, key) == cache

\* cache.Get on a hit: the entry moves to the front.
LruGet(cache, key) ==
  IF key \in CacheKeys(cache)
    THEN <<cache[CacheIndex(cache, key)]>> \o Without(cache, CacheIndex(cache, key))
    ELSE cache

\* (mutant of LruAdd: nothing is ever evicted)
LruAdd_NoEvict(cache, key, value, size) ==
  IF key \in CacheKeys(cache)
    THEN <<[key |-> key, value |-> value]>> \o Without(cache, CacheIndex(cache, key))
    ELSE <<[key |-> key, value |-> value]>> \o cache

\* cache.Add: an existing key is updated and moved to the front; a new key is
\* pushed to the front and, past the size, the oldest entry is removed.
LruAdd(cache, key, value, size) ==
  IF key \in CacheKeys(cache)
    THEN <<[key |-> key, value |-> value]>> \o Without(cache, CacheIndex(cache, key))
    ELSE LET pushed == <<[key |-> key, value |-> value]>> \o cache
         IN IF Len(pushed) > size THEN SubSeq(pushed, 1, Len(pushed) - 1) ELSE pushed

\* The use order of a cache's keys: the key just used comes first.
Touch(order, key) == <<key>> \o SelectSeq(order, LAMBDA k : k # key)

\* ------------------------------------------------------------- contexts
CtxKinds == {"none", "live", "done"}

\* (mutant of Elapsed: no check ever finds the deadline elapsed)
Elapsed_Never(p, done) == ~done

\* What a check of goroutine p's context can find: a context without deadline
\* never has elapsed, one that has elapsed stays so.
Elapsed(p, done) == (ctx[p] = "done" => done) /\ (ctx[p] = "none" => ~done)

\* A call into the operating system or the driver succeeds, or fails while the
\* failures are fewer than MaxFaults.
Outcome(ok) ==
  /\ ~ok => faults < MaxFaults
  /\ faults' = IF ok THEN faults ELSE faults + 1

NoCall == [fn |-> "none"]

\* ------------------------------------------------------- StringScanner
\* A text is the sequence of its characters.
DigitChars == <<"0", "1", "2", "3", "4", "5", "6", "7", "8", "9">>
HexChars == DigitChars \o <<"a", "b", "c", "d", "e", "f">>

RECURSIVE Concat(_)
Concat(texts) == IF texts = << >> THEN << >> ELSE Head(texts) \o Concat(Tail(texts))

\* The decimal digits of a natural number, at least `width` of them.
RECURSIVE Decimal(_, _)
Decimal(n, width) ==
  IF n < 10 /\ width <= 1 THEN <<DigitChars[n + 1]>>
  ELSE Decimal(n \div 10, width - 1) \o <<DigitChars[(n % 10) + 1]>>

\* strconv.FormatInt(v, 10)
FormatInt(v) == IF v < 0 THEN <<"-">> \o Decimal(-v, 1) ELSE Decimal(v, 1)

\* hex.EncodeToString(v): two characters of "0123456789abcdef" per byte.
EncodeToString(bytes) ==
  Concat([i \in 1..Len(bytes) |->
            <<HexChars[(bytes[i] \div 16) + 1], HexChars[(bytes[i] % 16) + 1]>>])

\* A float64 other than NaN and the infinities is given by the digits the
\* shortest-round-trip conversion of strconv finds for it (none for zero, no
\* zero at either end) and the position dp of the decimal point: the value is
\* 0.d1d2...dn * 10^dp.
\* %e layout of the digits: d1[.d2...dn]e(+|-)XX with the exponent dp - 1.
FormatE(f) ==
  LET exp == IF f.digits = << >> THEN 0 ELSE f.dp - 1
      ds == IF f.digits = << >> THEN <<0>> ELSE f.digits
  IN (IF f.neg THEN <<"-">> ELSE << >>)
       \o <<DigitChars[ds[1] + 1]>>
       \o (IF Len(ds) > 1 THEN <<".">> ELSE << >>)
       \o [i \in 1..(Len(ds) - 1) |-> DigitChars[ds[i + 1] + 1]]
       \o <<"e", IF exp < 0 THEN "-" ELSE "+">>
       \o Decimal(IF exp < 0 THEN -exp ELSE exp, 2)

\* %f layout of the digits with the fewest decimals that keep them all.
FormatF(f) ==
  LET nd == Len(f.digits)
      prec == IF nd > f.dp THEN nd - f.dp ELSE 0
      digit(i) == IF i >= 1 /\ i <= nd THEN DigitChars[f.digits[i] + 1] ELSE "0"
  IN (IF f.neg THEN <<"-">> ELSE << >>)
       \o (IF f.dp > 0 THEN [i \in 1..f.dp |-> digit(i)] ELSE <<"0">>)
       \o (IF prec > 0 THEN <<".">> ELSE << >>)
       \o [i \in 1..prec |-> digit(f.dp + i)]

\* fmt.Sprintf("%v", v) of a float64: %g with the shortest digits, which is %e
\* when the exponent is below -4 or not below 6.
FormatFloat_G(f) ==
  LET exp == IF f.digits = << >> THEN 0 ELSE f.dp - 1
  IN IF exp < -4 \/ exp >= 6 THEN FormatE(f) ELSE FormatF(f)

\* strconv.FormatFloat(v, 'f', -1, 64)
FormatFloat(f) == FormatF(f)

\* time.Time.Format("2006-01-02 15:04:05")
FormatTime(t) ==
  Decimal(t.year, 4) \o <<"-">> \o Decimal(t.month, 2) \o <<"-">> \o Decimal(t.day, 2)
    \o <<" ">> \o Decimal(t.hour, 2) \o <<":">> \o Decimal(t.min, 2)
    \o <<":">> \o Decimal(t.sec, 2)

\* fmt.Sprintf("%v", value), as far as it differs from the type switch.
Sprintf_v(value) ==
  CASE value.type = "int64" -> FormatInt(value.v)
    [] value.type = "float64" -> FormatFloat_G(value.v)
    [] value.type = "bool" -> IF value.v THEN <<"t", "r", "u", "e">>
                                         ELSE <<"f", "a", "l", "s", "e">>
    [] value.type = "bytes" ->
         <<"[">> \o Concat([i \in 1..Len(value.v) |->
                     (IF i > 1 THEN <<" ">> ELSE << >>) \o Decimal(value.v[i], 1)])
           \o <<"]">>
    [] value.type = "string" -> value.v
    [] value.type = "time" ->
         FormatTime(value.v) \o <<".">> \o Decimal(value.v.nsec, 9)
           \o <<" ", "+", "0", "0", "0", "0", " ", "U", "T", "C">>
    [] value.type = "nil" -> <<"<", "n", "i", "l", ">">>

\* ------------------------------------------ the MySQL-compatible functions
\* A Go string is its bytes; a text of the database is a sequence of
\* characters, each the sequence of the bytes of its UTF-8 encoding.
BytesOf(text) == Concat(text)

\* init, lines 68-92: LEFT(args[0], args[1]).  len(str) counts bytes and
\* str[:length] cuts at a byte.
LEFT(args) ==
  IF args[1].type # "string"
    THEN [value |-> << >>, err |-> <<"invalid argument type", args[1].type>>]
  ELSE IF args[2].type # "int64"
    THEN [value |-> << >>, err |-> <<"invalid argument type", args[2].type>>]
  ELSE IF args[2].v < 0
    THEN [value |-> << >>, err |-> <<"negative length">>]
  ELSE IF args[2].v > Len(BytesOf(args[1].v))
    THEN [value |-> BytesOf(args[1].v), err |-> NoErr]
  ELSE [value |-> SubSeq(BytesOf(args[1].v), 1, args[2].v), err |-> NoErr]

\* A timestamp text is the sequence of its fields: a date (year, month,
\* day), the separators sp and T, hours and minutes hm, seconds sec, a
\* fraction frac, a UTC offset, the letter Z, or anything else (junk).
\* SQLiteTimestampFormats, lines 296-308, as the fields of each layout; the
\* fraction .999999999 of a layout may be absent from the text, and time.Parse
\* takes a fraction after the seconds of any layout.
SQLiteTimestampFormats ==
  << <<"date", "sp", "hm", "sec", "offset">>,
     <<"date", "T", "hm", "sec", "offset">>,
     <<"date", "sp", "hm", "sec">>,
     <<"date", "T", "hm", "sec">>,
     <<"date", "sp", "hm", "sec">>,
     <<"date", "T", "hm", "sec">>,
     <<"date", "sp", "hm">>,
     <<"date", "T", "hm">>,
     <<"date">> >>

\* The two layouts of the earlier revision of parseSqliteDate.
EarlierFormats == << <<"date", "sp", "hm", "sec">>, <<"date">> >>

\* time.Time{}: January 1 of year 1.
ZeroTime == [year |-> 1, month |-> 1, day |-> 1]

DaysIn(year, month) ==
  IF month \in {4, 6, 9, 11} THEN 30
  ELSE IF month # 2 THEN 31
  ELSE IF year % 4 = 0 /\ (year % 100 # 0 \/ year % 400 = 0) THEN 29 ELSE 28

\* strings.TrimSuffix(dateStr, "Z")
TrimSuffixZ(text) ==
  IF text # << >> /\ text[Len(text)].kind = "Z"
    THEN SubSeq(text, 1, Len(text) - 1) ELSE text

\* The fields of the text without the fractions that follow seconds.
RECURSIVE Fields(_, _)
Fields(text, prev) ==
  IF text = << >> THEN << >>
  ELSE IF Head(text).kind = "frac" /\ prev = "sec" THEN Fields(Tail(text), "frac")
  ELSE <<Head(text).kind>> \o Fields(Tail(text), Head(text).kind)

\* time.ParseInLocation(format, s, time.UTC): the fields are those of the
\* layout and the date is a day of the calendar.
ParseInLocation(format, text) ==
  IF /\ Fields(text, "") = format
     /\ text[1].month \in 1..12
     /\ text[1].day \in 1..DaysIn(text[1].year, text[1].month)
    THEN [ok |-> TRUE,
          t |-> [year |-> text[1].year, month |-> text[1].month, day |-> text[1].day]]
    ELSE [ok |-> FALSE, t |-> ZeroTime]

\* The loop of parseSqliteDate over a list of layouts: the first that parses
\* gives the time, none leaves the zero time.
FirstParse(formats, text) ==
  LET parses == {i \in 1..Len(formats) : ParseInLocation(formats[i], text).ok}
  IN IF parses = {} THEN ZeroTime
     ELSE ParseInLocation(formats[CHOOSE i \in parses : \A j \in parses : i <= j],
                          text).t

\* parseSqliteDate, lines 310-337
parseSqliteDate_Earlier(d) ==
  IF d.type = "*time.Time" THEN [t |-> d.v, err |-> NoErr]
  ELSE IF d.type # "string"
    THEN [t |-> ZeroTime, err |-> <<"invalid date type", d.type>>]
  ELSE [t |-> FirstParse(EarlierFormats, d.v), err |-> NoErr]
parseSqliteDate(d) ==
  IF d.type = "*time.Time" THEN [t |-> d.v, err |-> NoErr]
  ELSE IF d.type # "string"
    THEN [t |-> ZeroTime, err |-> <<"invalid date type", d.type>>]
  ELSE [t |-> FirstParse(SQLiteTimestampFormats, TrimSuffixZ(d.v)), err |-> NoErr]

\* init, lines 29-66: YEAR, MONTH and DAY of args[0].
DatePart(part, args) ==
  LET d == parseSqliteDate(args[1])
  IN IF d.err # NoErr
       THEN [value |-> [type |-> "nil"], err |-> Wrap("parse date", d.err)]
       ELSE [value |-> [type |-> "int64",
                        v |-> CASE part = "YEAR" -> d.t.year
                                [] part = "MONTH" -> d.t.month
                                [] part = "DAY" -> d.t.day],
             err |-> NoErr]

\* StringScanner.Scan: the value kept and the error returned.
Scan_Sprintf(value) == [value |-> Sprintf_v(value), err |-> NoErr]
Scan(value) ==
  [value |->
     CASE value.type = "int64" -> FormatInt(value.v)
       [] value.type = "float64" -> FormatFloat(value.v)
       [] value.type = "bool" -> IF value.v THEN <<"1">> ELSE <<"0">>
       [] value.type = "bytes" -> EncodeToString(value.v)
       [] value.type = "string" -> value.v
       [] value.type = "time" -> FormatTime(value.v)
       [] value.type = "nil" -> <<"N", "U", "L", "L">>,
   err |-> NoErr]

\* ------------------------------------------------------------ responses
NoResp == [op |-> "none", schema |-> 0, query |-> 0, runner |-> NoRunner,
           ok |-> FALSE, data |-> NilResult, err |-> NoErr, code |-> "",
           ctx |-> "none"]

NoStart == [fresh |-> FALSE, prior |-> NoRunner, done |-> FALSE]

NewFailedResponse_NoQueryError(err) ==
  IF ErrorsAs(err, "BadPayloadError") THEN "BAD_PAYLOAD"
  ELSE IF ErrorsAs(err, "SchemaError") THEN "SCHEMA_ERROR"
  ELSE "INTERNAL_ERROR"

\* NewFailedResponse: the code is chosen by errors.As, in this order.
NewFailedResponse(err) ==
  IF ErrorsAs(err, "BadPayloadError") THEN "BAD_PAYLOAD"
  ELSE IF ErrorsAs(err, "SchemaError") THEN "SCHEMA_ERROR"
  ELSE IF ErrorsAs(err, "QueryError") THEN "QUERY_ERROR"
  ELSE "INTERNAL_ERROR"

Init ==
  /\ files = << >>
  /\ openDbs = 0
  /\ faults = 0
  /\ sf = {}
  /\ sfgroup = {}
  /\ runnersMap = << >>
  /\ call = NoCall
  /\ runners = << >>
  /\ pc = [p \in Procs |-> "idle"]
  /\ op = [p \in Procs |-> "none"]
  /\ stage = [p \in Procs |-> "none"]
  /\ lschema = [p \in Procs |-> 0]
  /\ lquery = [p \in Procs |-> 0]
  /\ lrunner = [p \in Procs |-> NoRunner]
  /\ lfile = [p \in Procs |-> ""]
  /\ lerr = [p \in Procs |-> NoErr]
  /\ lrows = [p \in Procs |-> << >>]
  /\ ctx = [p \in Procs |-> "none"]
  /\ resp = [p \in Procs |-> NoResp]
  /\ builds = [s \in AllSchemas |-> 0]
  /\ promoted = [s \in AllSchemas |-> 0]
  /\ resolved = [s \in AllSchemas |-> NoRunner]
  /\ succeeded = {}
  /\ atStart = [p \in Procs |-> NoStart]
  /\ peers = [p \in Procs |-> {}]
  /\ recency = << >>

\* A top-level call of goroutine p returns r: its locals are dead.
Return(p, r) ==
  /\ pc' = [pc EXCEPT ![p] = "idle"]
  /\ op' = [op EXCEPT ![p] = "none"]
  /\ stage' = [stage EXCEPT ![p] = "none"]
  /\ lschema' = [lschema EXCEPT ![p] = 0]
  /\ lquery' = [lquery EXCEPT ![p] = 0]
  /\ lrunner' = [lrunner EXCEPT ![p] = NoRunner]
  /\ lfile' = [lfile EXCEPT ![p] = ""]
  /\ lerr' = [lerr EXCEPT ![p] = NoErr]
  /\ lrows' = [lrows EXCEPT ![p] = << >>]
  /\ ctx' = [ctx EXCEPT ![p] = "none"]
  /\ resp' = [resp EXCEPT ![p] = r]

\* A goroutine that begins a new call is no longer the peer of anybody's call.
Unpeer(p) == [w \in Procs |-> IF w = p THEN {} ELSE peers[w] \ {p}]

\* ------------------------------------------------- library entry points
\* A caller of the package calls NewSQLRunner(schema); lines 126-136 make the
\* Runner value and are local, so the call stands at getSqliteInstance.
CallNewSQLRunner(p, schema) ==
  /\ pc[p] = "idle"
  /\ pc' = [pc EXCEPT ![p] = "sfDo"]
  /\ op' = [op EXCEPT ![p] = "new"]
  /\ stage' = [stage EXCEPT ![p] = "new"]
  /\ lschema' = [lschema EXCEPT ![p] = schema]
  /\ resp' = [resp EXCEPT ![p] = NoResp]
  /\ atStart' = [atStart EXCEPT ![p] = NoStart]
  /\ peers' = Unpeer(p)
  /\ UNCHANGED <<fsVars, sfVars, runnersMap, call, runners, lquery, lrunner, lfile, lerr,
                 lrows, ctx, builds, promoted, resolved, succeeded, recency>>

\* A caller of the package calls r.Query(ctx, query) on a Runner it holds, with
\* a context of kind c.
CallQuery(p, r, query, c) ==
  /\ pc[p] = "idle"
  /\ r \in 1..Len(runners)
  /\ pc' = [pc EXCEPT ![p] = "queryGet"]
  /\ op' = [op EXCEPT ![p] = "query"]
  /\ stage' = [stage EXCEPT ![p] = "query"]
  /\ lrunner' = [lrunner EXCEPT ![p] = r]
  /\ lschema' = [lschema EXCEPT ![p] = runners[r].schema]
  /\ lquery' = [lquery EXCEPT ![p] = query]
  /\ ctx' = [ctx EXCEPT ![p] = c]
  /\ resp' = [resp EXCEPT ![p] = NoResp]
  /\ atStart' = [atStart EXCEPT ![p] = NoStart]
  /\ peers' = Unpeer(p)
  /\ UNCHANGED <<fsVars, sfVars, runnersMap, call, runners, lfile, lerr, lrows,
                 builds, promoted, resolved, succeeded, recency>>

\* ------------------------------------------------- initializeThreadSafe
\* (mutant of initializeThreadSafe: no call ever joins a call in flight)
initializeThreadSafe_NoJoin(p) ==
  /\ pc[p] = "sfDo"
  /\ pc' = [pc EXCEPT ![p] = "stat"]
  /\ sf' = sf \cup {lschema[p]}
  /\ UNCHANGED <<fsVars, sfgroup, runnersMap, call, runners, op, stage, lschema, lquery,
                 lrunner, lfile, lerr, lrows, ctx, resp, histVars>>

\* (mutant of initializeThreadSafe: one key for every schema text, so that a
\* call waits behind any call in flight)
initializeThreadSafe_OneKey(p) ==
  /\ pc[p] = "sfDo"
  /\ IF sf # {}
       THEN /\ pc' = [pc EXCEPT ![p] = "sfWait"]
            /\ sf' = sf
       ELSE /\ pc' = [pc EXCEPT ![p] = "stat"]
            /\ sf' = sf \cup {lschema[p]}
  /\ UNCHANGED <<fsVars, sfgroup, runnersMap, call, runners, op, stage, lschema, lquery,
                 lrunner, lfile, lerr, lrows, ctx, resp, histVars>>

\* sf.Do(schema, ...): the first caller for a key runs initialize, the callers
\* that arrive while it runs wait for its result.
initializeThreadSafe(p) ==
  /\ pc[p] = "sfDo"
  /\ IF lschema[p] \in sf
       THEN /\ pc' = [pc EXCEPT ![p] = "sfWait"]
            /\ sf' = sf
       ELSE /\ pc' = [pc EXCEPT ![p] = "stat"]
            /\ sf' = sf \cup {lschema[p]}
  /\ UNCHANGED <<fsVars, sfgroup, runnersMap, call, runners, op, stage, lschema, lquery,
                 lrunner, lfile, lerr, lrows, ctx, resp, histVars>>

\* The call of leader p is over with (file, err): the key leaves the group and
\* the leader and every waiter of the key get the same (file, err).
SfDone_LeaderOnly(p, file, err) ==
  LET got == {w \in Procs : w = p \/ (pc[w] = "sfWait" /\ lschema[w] = lschema[p])}
  IN /\ sf' = sf \ {lschema[p]}
     /\ pc' = [w \in Procs |-> IF w \in got THEN "gsiAfter" ELSE pc[w]]
     /\ lfile' = [w \in Procs |-> IF w \in got THEN file ELSE lfile[w]]
     /\ lerr' = [w \in Procs |-> IF w = p THEN err
                                  ELSE IF w \in got THEN <<"singleflight">>
                                  ELSE lerr[w]]

SfDone(p, file, err) ==
  LET got == {w \in Procs : w = p \/ (pc[w] = "sfWait" /\ lschema[w] = lschema[p])}
  IN /\ sf' = sf \ {lschema[p]}
     /\ pc' = [w \in Procs |-> IF w \in got THEN "gsiAfter" ELSE pc[w]]
     /\ lfile' = [w \in Procs |-> IF w \in got THEN file ELSE lfile[w]]
     /\ lerr' = [w \in Procs |-> IF w \in got THEN err ELSE lerr[w]]

\* (mutant of initializeStat: the existence check never finds the file)
initializeStat_NoCheck(p) ==
  /\ pc[p] = "stat"
  /\ pc' = [pc EXCEPT ![p] = "openTmp"]
  /\ UNCHANGED <<fsVars, sfVars, runnersMap, call, runners, op, stage, lschema, lquery,
                 lrunner, lfile, lerr, lrows, ctx, resp, histVars>>

\* initialize, lines 253-260: the existence check.
initializeStat(p) ==
  /\ pc[p] = "stat"
  /\ IF Exists(schemaFilename(lschema[p]))
       THEN SfDone(p, schemaFilename(lschema[p]), NoErr)
       ELSE /\ pc' = [pc EXCEPT ![p] = "openTmp"]
            /\ UNCHANGED <<sf, lfile, lerr>>
  /\ UNCHANGED <<fsVars, sfgroup, runnersMap, call, runners, op, stage, lschema, lquery,
                 lrunner, lrows, ctx, resp, histVars>>

\* initialize, lines 262-272: sql.Open of the temporary database; the deferred
\* close-and-remove is registered only when it succeeds.
initializeOpen(p) ==
  /\ pc[p] = "openTmp"
  /\ \E ok \in BOOLEAN :
       /\ Outcome(ok)
       /\ IF ok
            THEN /\ openDbs' = openDbs + 1
                 /\ pc' = [pc EXCEPT ![p] = "pragma"]
                 /\ UNCHANGED <<sf, lfile, lerr>>
            ELSE /\ SfDone(p, "", <<"open sqlite", "driver">>)
                 /\ UNCHANGED openDbs
  /\ UNCHANGED <<files, sfgroup, runnersMap, call, runners, op, stage, lschema, lquery,
                 lrunner, lrows, ctx, resp, histVars>>

\* initialize, lines 274-276: the first statement creates the temporary file
\* when there is none (the engine opens the file that is there otherwise).
initializePragma(p) ==
  /\ pc[p] = "pragma"
  /\ \E ok \in BOOLEAN :
       /\ Outcome(ok)
       /\ IF ok
            THEN /\ files' = IF Exists(tmpFilename(lschema[p])) THEN files
                            ELSE WriteFile(files, tmpFilename(lschema[p]), "empty")
                 /\ pc' = [pc EXCEPT ![p] = "execSchema"]
                 /\ UNCHANGED lerr
            ELSE /\ lerr' = [lerr EXCEPT ![p] = <<"enable foreign keys", "driver">>]
                 /\ pc' = [pc EXCEPT ![p] = "initDefer"]
                 /\ UNCHANGED files
  /\ UNCHANGED <<openDbs, sfVars, runnersMap, call, runners, op, stage, lschema, lquery,
                 lrunner, lfile, lrows, ctx, resp, histVars>>

\* initialize, lines 278-280: the schema text runs on the temporary database.
initializeExec(p) ==
  /\ pc[p] = "execSchema"
  /\ builds' = [builds EXCEPT ![lschema[p]] = Sat2(@)]
  /\ IF lschema[p] \in InvalidSchemas
       THEN /\ files' = WriteFile(files, tmpFilename(lschema[p]), "partial")
            /\ lerr' = [lerr EXCEPT ![p] = NewSchemaError(<<"engine">>)]
            /\ pc' = [pc EXCEPT ![p] = "initDefer"]
       ELSE /\ files' = WriteFile(files, tmpFilename(lschema[p]), "built")
            /\ pc' = [pc EXCEPT ![p] = "rename"]
            /\ UNCHANGED lerr
  /\ UNCHANGED <<openDbs, faults, sfVars, runnersMap, call, runners, op, stage, lschema,
                 lquery, lrunner, lfile, lrows, ctx, resp, promoted, resolved, succeeded,
                 atStart, peers, recency>>

\* initialize, lines 282-287: os.Rename of the temporary file to the final name.
initializeRename(p) ==
  /\ pc[p] = "rename"
  /\ pc' = [pc EXCEPT ![p] = "initDefer"]
  /\ \E ok \in BOOLEAN :
       /\ Outcome(ok)
       /\ IF ok
            THEN /\ files' = RenameFile(files, tmpFilename(lschema[p]),
                                        schemaFilename(lschema[p]))
                 /\ lfile' = [lfile EXCEPT ![p] = schemaFilename(lschema[p])]
                 /\ promoted' = [promoted EXCEPT ![lschema[p]] = Sat2(@)]
                 /\ UNCHANGED lerr
            ELSE /\ lerr' = [lerr EXCEPT ![p] = <<"persistent schema", "os">>]
                 /\ UNCHANGED <<files, lfile, promoted>>
  /\ UNCHANGED <<openDbs, sfVars, runnersMap, call, runners, op, stage, lschema, lquery,
                 lrunner, lrows, ctx, resp, builds, resolved, succeeded,
                 atStart, peers, recency>>

\* (mutant of initializeReturn: the handle is closed, the temporary file stays)
initializeReturn_NoRemove(p) ==
  /\ pc[p] = "initDefer"
  /\ openDbs' = openDbs - 1
  /\ SfDone(p, lfile[p], lerr[p])
  /\ UNCHANGED <<files, faults, sfgroup, runnersMap, call, runners, op, stage, lschema, lquery,
                 lrunner, lrows, ctx, resp, histVars>>

\* initialize returns, lines 266-272: the deferred function closes the handle
\* and removes the temporary file; then the singleflight call is over.
initializeReturn(p) ==
  /\ pc[p] = "initDefer"
  /\ openDbs' = openDbs - 1
  /\ files' = RemoveFile(files, tmpFilename(lschema[p]))
  /\ SfDone(p, lfile[p], lerr[p])
  /\ UNCHANGED <<faults, sfgroup, runnersMap, call, runners, op, stage, lschema, lquery, lrunner,
                 lrows, ctx, resp, histVars>>

\* (mutant of getSqliteInstance: an error of initializeThreadSafe is returned
\* as it is)
getSqliteInstance_NoWrap(p) ==
  /\ pc[p] = "gsiAfter"
  /\ pc' = [pc EXCEPT ![p] = IF stage[p] = "new" THEN "newReturn" ELSE "queryContext"]
  /\ IF lerr[p] # NoErr
       THEN UNCHANGED <<lerr, openDbs, faults>>
       ELSE \E ok \in BOOLEAN :
              /\ Outcome(ok)
              /\ IF ok
                   THEN /\ openDbs' = openDbs + 1
                        /\ UNCHANGED lerr
                   ELSE /\ lerr' = [lerr EXCEPT
                                      ![p] = <<"open schema database (r/o)", "driver">>]
                        /\ UNCHANGED openDbs
  /\ UNCHANGED <<files, sfVars, runnersMap, call, runners, op, stage, lschema, lquery,
                 lrunner, lfile, lrows, ctx, resp, histVars>>

\* getSqliteInstance, lines 223-235, after initializeThreadSafe has returned.
getSqliteInstance(p) ==
  /\ pc[p] = "gsiAfter"
  /\ pc' = [pc EXCEPT ![p] = IF stage[p] = "new" THEN "newReturn" ELSE "queryContext"]
  /\ IF ErrorsAs(lerr[p], "SchemaError")
       THEN UNCHANGED <<lerr, openDbs, faults>>
       ELSE IF lerr[p] # NoErr
         THEN /\ lerr' = [lerr EXCEPT ![p] = NewSchemaError(@)]
              /\ UNCHANGED <<openDbs, faults>>
         ELSE \E ok \in BOOLEAN :
                /\ Outcome(ok)
                /\ IF ok
                     THEN /\ openDbs' = openDbs + 1
                          /\ UNCHANGED lerr
                     ELSE /\ lerr' = [lerr EXCEPT
                                        ![p] = <<"open schema database (r/o)", "driver">>]
                          /\ UNCHANGED openDbs
  /\ UNCHANGED <<files, sfVars, runnersMap, call, runners, op, stage, lschema, lquery,
                 lrunner, lfile, lrows, ctx, resp, histVars>>

\* (mutant of NewSQLRunner: the Runner is returned even when
\* getSqliteInstance failed)
NewSQLRunner_KeepsRunner(p) ==
  /\ pc[p] = "newReturn"
  /\ LET failed == lerr[p] # NoErr
         err == IF failed THEN Wrap("initialize sqlite", lerr[p]) ELSE NoErr
         id == Len(runners) + 1
     IN /\ runners' = Append(runners, [schema |-> lschema[p], cache |-> << >>])
        /\ recency' = Append(recency, << >>)
        /\ IF op[p] = "new"
             THEN Return(p, [op |-> "new", schema |-> lschema[p], query |-> 0,
                             runner |-> id, ok |-> ~failed, data |-> NilResult,
                             err |-> err, code |-> "", ctx |-> "none"])
             ELSE /\ pc' = [pc EXCEPT ![p] = "fnReturn"]
                  /\ lrunner' = [lrunner EXCEPT ![p] = id]
                  /\ lerr' = [lerr EXCEPT ![p] = err]
                  /\ UNCHANGED <<op, stage, lschema, lquery, lfile, lrows, ctx, resp>>
  /\ UNCHANGED <<fsVars, sfVars, runnersMap, call, builds, promoted, resolved, succeeded,
                 atStart, peers>>

\* ------------------------------------------------------- NewSQLRunner
\* NewSQLRunner, lines 140-146: the handle getSqliteInstance opened is dropped
\* without Close; the Runner with its empty cache is returned.  Under Serve the
\* call was made by the function findRunner hands to sfgroup.Do.
NewSQLRunner(p) ==
  /\ pc[p] = "newReturn"
  /\ LET failed == lerr[p] # NoErr
         err == IF failed THEN Wrap("initialize sqlite", lerr[p]) ELSE NoErr
         id == IF failed THEN NoRunner ELSE Len(runners) + 1
     IN /\ runners' = IF failed THEN runners
                      ELSE Append(runners, [schema |-> lschema[p], cache |-> << >>])
        /\ recency' = IF failed THEN recency ELSE Append(recency, << >>)
        /\ IF op[p] = "new"
             THEN Return(p, [op |-> "new", schema |-> lschema[p], query |-> 0,
                             runner |-> id, ok |-> ~failed, data |-> NilResult,
                             err |-> err, code |-> "", ctx |-> "none"])
             ELSE /\ pc' = [pc EXCEPT ![p] = "fnReturn"]
                  /\ lrunner' = [lrunner EXCEPT ![p] = id]
                  /\ lerr' = [lerr EXCEPT ![p] = err]
                  /\ UNCHANGED <<op, stage, lschema, lquery, lfile, lrows, ctx, resp>>
  /\ UNCHANGED <<fsVars, sfVars, runnersMap, call, builds, promoted, resolved, succeeded,
                 atStart, peers>>

\* --------------------------------------------------------------- Query
\* Query returns (result, err) to its caller; under Serve, lines 139-153 turn
\* that into the response at once.
QueryReturn(p, result, err) ==
  /\ Return(p, [op |-> op[p], schema |-> lschema[p], query |-> lquery[p],
                runner |-> lrunner[p], ok |-> err = NoErr, data |-> result,
                err |-> err,
                code |-> IF op[p] = "serve" /\ err # NoErr
                           THEN NewFailedResponse(err) ELSE "",
                ctx |-> ctx[p]])
  /\ succeeded' = IF op[p] = "serve" /\ err = NoErr
                    THEN succeeded \cup {<<lschema[p], lquery[p]>>}
                    ELSE succeeded

\* Query, lines 153-158: the cache lookup; a hit returns the cached result.
QueryGet(p) ==
  /\ pc[p] = "queryGet"
  /\ LET cache == runners[lrunner[p]].cache
     IN IF lquery[p] \in CacheKeys(cache)
          THEN /\ runners' = [runners EXCEPT
                                ![lrunner[p]].cache = LruGet(cache, lquery[p])]
               /\ recency' = [recency EXCEPT ![lrunner[p]] = Touch(@, lquery[p])]
               /\ QueryReturn(p, CacheValue(cache, lquery[p]), NoErr)
          ELSE /\ pc' = [pc EXCEPT ![p] = "sfDo"]
               /\ UNCHANGED <<runners, op, stage, lschema, lquery, lrunner, lfile,
                              lerr, lrows, ctx, resp, succeeded, recency>>
  /\ UNCHANGED <<fsVars, sfVars, runnersMap, call, builds, promoted, resolved, atStart, peers>>

\* Query, lines 161-180: getSqliteInstance has returned; db.QueryContext runs
\* the text unless the deadline has elapsed.  Every return closes db.
QueryContext(p) ==
  /\ pc[p] = "queryContext"
  /\ IF lerr[p] # NoErr
       THEN /\ QueryReturn(p, NilResult, Wrap("get schema", lerr[p]))
            /\ UNCHANGED <<openDbs, files>>
       ELSE \E done \in BOOLEAN :
              /\ Elapsed(p, done)
              /\ IF done
                   THEN /\ QueryReturn(p, NilResult,
                                       NewQueryError(<<"context deadline exceeded">>))
                        /\ openDbs' = openDbs - 1
                        /\ UNCHANGED files
                   ELSE IF lquery[p] \in InvalidQueries
                     THEN /\ QueryReturn(p, NilResult, NewQueryError(<<"engine">>))
                          /\ openDbs' = openDbs - 1
                          /\ UNCHANGED files
                   ELSE IF lquery[p] \in WriteQueries /\ OpenMode = "ro"
                     THEN /\ QueryReturn(p, NilResult, NewQueryError(
                                 <<"attempt to write a readonly database">>))
                          /\ openDbs' = openDbs - 1
                          /\ UNCHANGED files
                     ELSE /\ pc' = [pc EXCEPT ![p] = "queryColumns"]
                          /\ files' = IF lquery[p] \in WriteQueries
                                        THEN WriteFile(files, lfile[p], "written")
                                        ELSE files
                          /\ UNCHANGED <<openDbs, op, stage, lschema, lquery, lrunner,
                                         lfile, lerr, lrows, ctx, resp, succeeded>>
  /\ UNCHANGED <<faults, sfVars, runnersMap, call, runners, builds, promoted,
                 resolved, atStart, peers, recency>>

\* (mutant of QueryColumns: the return on a Columns error leaves db open)
QueryColumns_NoClose(p) ==
  /\ pc[p] = "queryColumns"
  /\ \E done \in BOOLEAN :
       /\ Elapsed(p, done)
       /\ IF done
            THEN QueryReturn(p, NilResult, <<"get columns", "context deadline exceeded">>)
            ELSE /\ pc' = [pc EXCEPT ![p] = "queryNext"]
                 /\ lrows' = [lrows EXCEPT ![p] = << >>]
                 /\ UNCHANGED <<op, stage, lschema, lquery, lrunner, lfile,
                                lerr, ctx, resp, succeeded>>
  /\ UNCHANGED <<files, openDbs, faults, sfVars, runnersMap, call, runners, builds,
                 promoted, resolved, atStart, peers, recency>>

\* Query, lines 183-188: result.Columns() fails on rows the elapsed deadline
\* has closed.
QueryColumns(p) ==
  /\ pc[p] = "queryColumns"
  /\ \E done \in BOOLEAN :
       /\ Elapsed(p, done)
       /\ IF done
            THEN /\ QueryReturn(p, NilResult,
                                <<"get columns", "context deadline exceeded">>)
                 /\ openDbs' = openDbs - 1
            ELSE /\ pc' = [pc EXCEPT ![p] = "queryNext"]
                 /\ lrows' = [lrows EXCEPT ![p] = << >>]
                 /\ UNCHANGED <<openDbs, op, stage, lschema, lquery, lrunner, lfile,
                                lerr, ctx, resp, succeeded>>
  /\ UNCHANGED <<files, faults, sfVars, runnersMap, call, runners, builds, promoted,
                 resolved, atStart, peers, recency>>

\* Query, lines 189-215: one turn of the loop.  result.Next() is false at the
\* end of the cursor and also on rows the elapsed deadline has closed
\* (result.Err() is not consulted); then the rows collected are the result, it
\* is added to the cache and returned.  result.Scan fails if the deadline
\* elapses between Next and Scan.
QueryNext(p) ==
  /\ pc[p] = "queryNext"
  /\ \E done \in BOOLEAN :
       /\ Elapsed(p, done)
       /\ IF \/ done
             \/ StepFails(lschema[p], lquery[p], Len(lrows[p]))
             \/ Len(lrows[p]) = EngineRowCount(lschema[p], lquery[p])
            THEN LET result == [nil |-> FALSE, Columns |-> EngineColumns(lquery[p]),
                                Rows |-> lrows[p]]
                 IN /\ runners' = [runners EXCEPT ![lrunner[p]].cache =
                                     LruAdd(@, lquery[p], result, ResultCacheSize)]
                    /\ recency' = [recency EXCEPT ![lrunner[p]] = Touch(@, lquery[p])]
                    /\ QueryReturn(p, result, NoErr)
                    /\ openDbs' = openDbs - 1
            ELSE \E scanDone \in BOOLEAN :
                   /\ Elapsed(p, scanDone)
                   /\ UNCHANGED recency
                   /\ IF scanDone
                        THEN /\ QueryReturn(p, NilResult,
                                            <<"scan", "context deadline exceeded">>)
                             /\ openDbs' = openDbs - 1
                             /\ UNCHANGED runners
                        ELSE /\ lrows' = [lrows EXCEPT ![p] = Append(@,
                                            ScanRow(EngineColumns(lquery[p]),
                                              EngineRow(lschema[p], lquery[p],
                                                        Len(@) + 1)))]
                             /\ UNCHANGED <<openDbs, runners, pc, op, stage, lschema,
                                            lquery, lrunner, lfile, lerr, ctx, resp,
                                            succeeded>>
  /\ UNCHANGED <<files, faults, sfVars, runnersMap, call, builds, promoted, resolved,
                 atStart, peers>>

\* --------------------------------------------------- SqlQueryService
\* A Serve call is inside findRunner.
InFindRunner(w) == op[w] = "serve" /\ stage[w] = "new" /\ pc[w] # "afterFind"

RunnersOf(schema) == {r \in 1..Len(runners) : runners[r].schema = schema}

\* A request body that does not bind to QueryRequest (its schema stands for
\* the whole body).
Unbindable == {-5}

\* Serve, lines 102 and 112: the payload is refused.
BadPayload_SchemaOnly(schema, query) ==
  schema \in Unbindable \/ schema \in EmptyTexts
BadPayload(schema, query) ==
  schema \in Unbindable \/ schema \in EmptyTexts \/ query \in EmptyTexts

BadPayloadError(schema) ==
  IF schema \in Unbindable THEN <<"BadPayloadError", "bind">>
  ELSE <<"BadPayloadError", "Schema and Query are required">>

\* Serve, lines 95-122: the payload check, then findRunner is called.
Serve(p, schema, query) ==
  /\ pc[p] = "idle"
  /\ IF BadPayload(schema, query)
       THEN /\ resp' = [resp EXCEPT ![p] =
                   [op |-> "serve", schema |-> schema, query |-> query,
                    runner |-> NoRunner, ok |-> FALSE, data |-> NilResult,
                    err |-> BadPayloadError(schema),
                    code |-> NewFailedResponse(BadPayloadError(schema)),
                    ctx |-> "none"]]
            /\ atStart' = [atStart EXCEPT ![p] = NoStart]
            /\ peers' = Unpeer(p)
            /\ UNCHANGED <<pc, op, stage, lschema, lquery>>
       ELSE /\ pc' = [pc EXCEPT ![p] = "findRunner"]
            /\ op' = [op EXCEPT ![p] = "serve"]
            /\ stage' = [stage EXCEPT ![p] = "new"]
            /\ lschema' = [lschema EXCEPT ![p] = schema]
            /\ lquery' = [lquery EXCEPT ![p] = query]
            /\ resp' = [resp EXCEPT ![p] = NoResp]
            /\ atStart' = [atStart EXCEPT ![p] =
                 [fresh |-> ~Exists(schemaFilename(schema)) /\ RunnersOf(schema) = {},
                  prior |-> resolved[schema],
                  done |-> <<schema, query>> \in succeeded]]
            /\ LET others == {w \in Procs \ {p} : InFindRunner(w) /\ lschema[w] = schema}
               IN peers' = [w \in Procs |->
                              IF w = p THEN others
                              ELSE IF w \in others THEN peers[w] \cup {p}
                              ELSE peers[w] \ {p}]
  /\ UNCHANGED <<fsVars, sfVars, runnersMap, call, runners, lrunner, lfile, lerr, lrows,
                 ctx, builds, promoted, resolved, succeeded, recency>>

\* s.sfgroup.Do(schema, ...): the first caller for a key runs the function
\* (NewSQLRunner), the callers that arrive while it runs wait for its result.
SfgroupDo(p) ==
  /\ IF lschema[p] \in sfgroup
       THEN /\ pc' = [pc EXCEPT ![p] = "svcWait"]
            /\ sfgroup' = sfgroup
       ELSE /\ pc' = [pc EXCEPT ![p] = "sfDo"]
            /\ sfgroup' = sfgroup \cup {lschema[p]}
  /\ UNCHANGED <<fsVars, sf, runnersMap, call, runners, op, stage, lschema, lquery,
                 lrunner, lfile, lerr, lrows, ctx, resp, histVars>>

\* The function handed to sfgroup.Do has returned (runner, err) in leader p: the
\* key leaves the group; the leader and every waiter get the same pair and
\* continue at `next`.
SfgroupDone(p, runner, err, next) ==
  LET got == {w \in Procs : w = p \/ (pc[w] = "svcWait" /\ lschema[w] = lschema[p])}
  IN /\ sfgroup' = sfgroup \ {lschema[p]}
     /\ pc' = [w \in Procs |-> IF w \in got THEN next ELSE pc[w]]
     /\ lrunner' = [w \in Procs |-> IF w \in got THEN runner ELSE lrunner[w]]
     /\ lerr' = [w \in Procs |-> IF w \in got THEN err ELSE lerr[w]]

\* findRunner, lines 156-157: straight into sfgroup.Do.
findRunner(p) ==
  /\ pc[p] = "findRunner"
  /\ SfgroupDo(p)

\* findRunner, lines 158-164: the function's return, which ends the call.
findRunnerFn(p) ==
  /\ pc[p] = "fnReturn"
  /\ SfgroupDone(p, lrunner[p],
                 IF lerr[p] # NoErr THEN Wrap("create SQLRunner", lerr[p]) ELSE NoErr,
                 "afterFind")
  /\ UNCHANGED <<fsVars, sf, runnersMap, call, runners, op, stage, lschema, lquery, lfile,
                 lrows, ctx, resp, histVars>>

\* findRunner returns to Serve, lines 123-138: an error is answered at once,
\* otherwise runner.Query is called under the one-minute deadline.
ServeAfterFind(p) ==
  /\ pc[p] = "afterFind"
  /\ IF lerr[p] # NoErr
       THEN /\ Return(p, [op |-> "serve", schema |-> lschema[p], query |-> lquery[p],
                          runner |-> NoRunner, ok |-> FALSE, data |-> NilResult,
                          err |-> lerr[p], code |-> NewFailedResponse(lerr[p]),
                          ctx |-> "none"])
            /\ UNCHANGED resolved
       ELSE /\ pc' = [pc EXCEPT ![p] = "queryGet"]
            /\ stage' = [stage EXCEPT ![p] = "query"]
            /\ resolved' = [resolved EXCEPT ![lschema[p]] = lrunner[p]]
            /\ ctx' = [ctx EXCEPT ![p] = "live"]
            /\ UNCHANGED <<op, lschema, lquery, lrunner, lfile, lerr, lrows, resp>>
  /\ UNCHANGED <<fsVars, sfVars, runnersMap, call, runners, builds, promoted, succeeded,
                 atStart, peers, recency>>

\* ------------------------------- findRunner of the earlier revision
\* (the second file of src/main.go, lines 308-332, with runners sync.Map)
\* lines 310-313: s.runners.Load.
findRunnerLoad(p) ==
  /\ pc[p] = "findRunner"
  /\ IF lschema[p] \in DOMAIN runnersMap
       THEN /\ lrunner' = [lrunner EXCEPT ![p] = runnersMap[lschema[p]]]
            /\ pc' = [pc EXCEPT ![p] = "afterFind"]
       ELSE /\ pc' = [pc EXCEPT ![p] = "svcDo"]
            /\ UNCHANGED lrunner
  /\ UNCHANGED <<fsVars, sfVars, runnersMap, call, runners, op, stage, lschema, lquery,
                 lfile, lerr, lrows, ctx, resp, histVars>>

\* line 315: s.sfgroup.Do.
findRunnerDo(p) ==
  /\ pc[p] = "svcDo"
  /\ SfgroupDo(p)

Store(m, key, value) == [k \in (DOMAIN m) \cup {key} |-> IF k = key THEN value ELSE m[k]]

\* lines 316-323: the function stores the new Runner and returns.
findRunnerFnStore(p) ==
  /\ pc[p] = "fnReturn"
  /\ runnersMap' = IF lerr[p] # NoErr THEN runnersMap
                   ELSE Store(runnersMap, lschema[p], lrunner[p])
  /\ UNCHANGED call
  /\ SfgroupDone(p, lrunner[p],
                 IF lerr[p] # NoErr THEN Wrap("create SQLRunner", lerr[p]) ELSE NoErr,
                 "storeResult")
  /\ UNCHANGED <<fsVars, sf, runners, op, stage, lschema, lquery, lfile, lrows,
                 ctx, resp, histVars>>

\* lines 324-331: every caller of Do stores the result again.
findRunnerStore(p) ==
  /\ pc[p] = "storeResult"
  /\ pc' = [pc EXCEPT ![p] = "afterFind"]
  /\ runnersMap' = IF lerr[p] # NoErr THEN runnersMap
                   ELSE Store(runnersMap, lschema[p], lrunner[p])
  /\ UNCHANGED call
  /\ UNCHANGED <<fsVars, sfVars, runners, op, stage, lschema, lquery, lrunner, lfile,
                 lerr, lrows, ctx, resp, histVars>>

\* ------------------------------------------------------ specifications
\* Runners under construction or constructed.
Constructing == Cardinality({p \in Procs : stage[p] = "new"}) + Len(runners)

\* The steps of the package up to an open artifact, whoever called it.
Materialize(p) ==
  \/ initializeThreadSafe(p)
  \/ initializeStat(p)
  \/ initializeOpen(p)
  \/ initializePragma(p)
  \/ initializeExec(p)
  \/ initializeRename(p)
  \/ initializeReturn(p)
  \/ getSqliteInstance(p)
  \/ NewSQLRunner(p)

\* The steps of the package, whoever called it.
Library(p) ==
  \/ Materialize(p)
  \/ QueryGet(p)
  \/ QueryContext(p)
  \/ QueryColumns(p)
  \/ QueryNext(p)

\* The program: the HTTP service of src/main.go.
Next ==
  \E p \in Procs :
    \/ \E s \in Schemas, q \in Queries : Constructing < MaxRunners /\ Serve(p, s, q)
    \/ findRunner(p)
    \/ findRunnerFn(p)
    \/ ServeAfterFind(p)
    \/ Library(p)

\* The package used directly, as its tests do; each Query call is given a
\* context with a deadline, elapsed or not.
NextLib ==
  \E p \in Procs :
    \/ \E s \in Schemas : Constructing < MaxRunners /\ CallNewSQLRunner(p, s)
    \/ \E r \in 1..Len(runners), q \in Queries, c \in {"live", "done"} :
         CallQuery(p, r, q, c)
    \/ Library(p)

SpecLib == Init /\ [][NextLib]_vars

\* The goroutine of the specifications with one caller.
Single == {p \in Procs : \A w \in Procs : p <= w}

\* The service of the earlier revision (runners sync.Map): one client posts
\* one request after the other, each for the first schema text or for a text
\* not posted before, with a query text the engine rejects.
NextSchema == Cardinality(DOMAIN runnersMap) + 1

NextEarlier ==
  \E p \in Single :
    \/ \E s \in {1, NextSchema}, q \in InvalidQueries :
         s <= EarlierSchemas /\ Serve(p, s, q)
    \/ findRunnerLoad(p)
    \/ findRunnerDo(p)
    \/ findRunnerFnStore(p)
    \/ findRunnerStore(p)
    \/ ServeAfterFind(p)
    \/ Materialize(p)
    \/ QueryGet(p)
    \/ QueryContext(p)

SpecEarlier == Init /\ [][NextEarlier]_vars

\* One Runner used by one caller without deadline: it is built for schema 1,
\* then asked, one call after the other, for the next query text not asked
\* before or, once its cache is full, for the first text again.  The texts are
\* the ones that select no row.
FirstKey == NumQueries + 1

NextKey(cache) ==
  IF cache = << >> THEN FirstKey
  ELSE 1 + CHOOSE k \in CacheKeys(cache) : \A j \in CacheKeys(cache) : j <= k

NextLRU ==
  \E p \in Single :
    \/ runners = << >> /\ CallNewSQLRunner(p, 1)
    \/ \E r \in 1..Len(runners) :
         \E q \in {FirstKey, NextKey(runners[r].cache)} :
           /\ q < FirstKey + LruFreshKeys
           /\ q = NextKey(runners[r].cache) \/ Len(runners[r].cache) = ResultCacheSize
           /\ CallQuery(p, r, q, "none")
    \/ Library(p)

SpecLRU == Init /\ [][NextLRU]_vars

\* The service with one client per goroutine, each posting its own schema
\* text (text p for goroutine p), all of them valid and pairwise distinct.
NextTenants ==
  \E p \in Procs :
    \/ \E q \in Queries : Constructing < MaxRunners /\ Serve(p, p, q)
    \/ findRunner(p)
    \/ findRunnerFn(p)
    \/ ServeAfterFind(p)
    \/ Library(p)

SpecTenants == Init /\ [][NextTenants]_vars

\* The library under the calls of its tests: one caller builds the Runner of
\* the first schema text and asks it, without a deadline (context.TODO()),
\* texts of every kind the engine tells apart.
EngineTexts ==
  InvalidQueries \cup (1..NumQueries) \cup EmptyTexts \cup LateFailQueries
    \cup WriteQueries

NextEngine ==
  \E p \in Single :
    \/ runners = << >> /\ CallNewSQLRunner(p, 1)
    \/ \E r \in 1..Len(runners) : \E q \in EngineTexts : CallQuery(p, r, q, "none")
    \/ Library(p)

SpecEngine == Init /\ [][NextEngine]_vars

\* The functions of the package called directly, as their tests call them,
\* on the values the driver can hand over.
RECURSIVE SeqsUpTo(_, _)
SeqsUpTo(S, n) ==
  IF n = 0 THEN {<< >>}
  ELSE LET shorter == SeqsUpTo(S, n - 1)
       IN shorter \cup {Append(q, x) : q \in shorter, x \in S}

\* The digits of 1145141919.81, of 4242424242.424242 and of 1.0.
FloatSamples ==
  { [neg |-> FALSE, digits |-> <<1, 1, 4, 5, 1, 4, 1, 9, 1, 9, 8, 1>>, dp |-> 10],
    [neg |-> FALSE, digits |-> <<4, 2, 4, 2, 4, 2, 4, 2, 4, 2, 4, 2, 4, 2, 4, 2>>,
     dp |-> 10],
    [neg |-> FALSE, digits |-> <<1>>, dp |-> 1] }

Floats ==
  FloatSamples
    \cup [neg : BOOLEAN, digits : {<< >>}, dp : {0}]
    \cup [neg : BOOLEAN,
          digits : {d \in SeqsUpTo(0..9, MaxDigits) :
                      d # << >> /\ d[1] # 0 /\ d[Len(d)] # 0},
          dp : (-MaxDp)..MaxDp]

ByteSamples == {0, 10, 15, 16, 104, 255}
Blobs == SeqsUpTo(ByteSamples, MaxBytes) \cup {<<104, 101, 108, 108, 111>>}

Texts == SeqsUpTo({"h", "0", "-"}, 2) \cup {<<"h", "e", "l", "l", "o">>}

Times ==
  [year : {1, 2021, 9999}, month : {1, 12}, day : {2, 31}, hour : {0, 3, 23},
   min : {4, 59}, sec : {5}, nsec : {0, 6}]

ScanValues ==
  [type : {"int64"}, v : (-MaxInt)..MaxInt]
    \cup [type : {"float64"}, v : Floats]
    \cup [type : {"bool"}, v : BOOLEAN]
    \cup [type : {"bytes"}, v : Blobs]
    \cup [type : {"string"}, v : Texts]
    \cup [type : {"time"}, v : Times]
    \cup {[type |-> "nil"]}

\* s := &StringScanner{}; s.Scan(value); s.Value()
ScanCall(value) ==
  /\ call = NoCall
  /\ call' = [fn |-> "Scan", in |-> value, out |-> Scan(value)]
  /\ UNCHANGED progVars

\* The characters h, e-acute and a CJK character: one, two and three bytes.
LeftChars == {<<104>>, <<195, 169>>, <<228, 184, 150>>}

LeftTexts == [type : {"string"}, v : SeqsUpTo(LeftChars, MaxChars)]

LeftLengths == [type : {"int64"}, v : (-1)..(3 * MaxChars + 1)]

\* SELECT LEFT(s, n): the engine hands both arguments to the function.
LeftCall(s, n) ==
  /\ call = NoCall
  /\ call' = [fn |-> "LEFT", in |-> <<s, n>>, out |-> LEFT(<<s, n>>)]
  /\ UNCHANGED progVars

\* Timestamp texts: a date, of the calendar or not, followed by the fields of
\* an accepted layout or by others, with no, one or two Z at the end; and
\* texts without a date.
Field(kind) == [kind |-> kind, year |-> 0, month |-> 0, day |-> 0]

Dates ==
  { [kind |-> "date", year |-> 2021, month |-> 1, day |-> 1],
    [kind |-> "date", year |-> 2021, month |-> 2, day |-> 1],
    [kind |-> "date", year |-> 2021, month |-> 2, day |-> 30],
    [kind |-> "date", year |-> 2024, month |-> 13, day |-> 5] }

AcceptedTails ==
  { << >>,
    <<"sp", "hm">>, <<"T", "hm">>,
    <<"sp", "hm", "sec">>, <<"T", "hm", "sec">>,
    <<"sp", "hm", "sec", "frac">>, <<"T", "hm", "sec", "frac">>,
    <<"sp", "hm", "sec", "offset">>, <<"T", "hm", "sec", "offset">>,
    <<"sp", "hm", "sec", "frac", "offset">>, <<"T", "hm", "sec", "frac", "offset">> }

OtherTails ==
  { <<"sp">>, <<"junk">>, <<"hm">>, <<"sp", "sec">>, <<"sp", "hm", "offset">>,
    <<"sp", "hm", "frac">>, <<"T", "hm", "sec", "junk">> }

DateTexts ==
  { <<d>> \o [i \in 1..Len(tail) |-> Field(tail[i])] \o [i \in 1..z |-> Field("Z")] :
      d \in Dates, tail \in AcceptedTails \cup OtherTails, z \in 0..2 }
    \cup {<< >>, <<Field("junk")>>, <<Field("Z")>>}

\* What the engine hands over that is not a text: NULL, a number, a blob
\* (parseSqliteDate looks at the type only).
NonTexts == [type : {"nil", "int64", "float64", "bytes"}]

\* SELECT YEAR(x), MONTH(x), DAY(x)
DateCall(part, x) ==
  /\ call = NoCall
  /\ call' = [fn |-> part, in |-> x, out |-> DatePart(part, <<x>>)]
  /\ UNCHANGED progVars

NextValues ==
  \/ \E value \in ScanValues : ScanCall(value)
  \/ \E part \in {"YEAR", "MONTH", "DAY"},
        x \in [type : {"string"}, v : DateTexts] \cup NonTexts : DateCall(part, x)
  \/ \E s \in LeftTexts \cup {[type |-> "nil"]}, n \in LeftLengths \cup {[type |-> "nil"]} :
       LeftCall(s, n)

SpecValues == Init /\ [][NextValues]_vars

\* The HTTP service with every kind of request body: bodies that do not
\* bind, empty texts, and texts the engine fails or accepts.
PayloadSchemas == Schemas \cup EmptyTexts \cup Unbindable
PayloadQueries == Queries \cup EmptyTexts

NextPayload ==
  \E p \in Procs :
    \/ \E s \in PayloadSchemas, q \in PayloadQueries :
         Constructing < MaxRunners /\ Serve(p, s, q)
    \/ findRunner(p)
    \/ findRunnerFn(p)
    \/ ServeAfterFind(p)
    \/ Library(p)

SpecPayload == Init /\ [][NextPayload]_vars

\* Another process of the program working in the same tmpDir runs initialize
\* for the schema text from its existence check to its rename, at a moment
\* when no temporary file of the address is in use: its database appears at
\* the final path.
PeerBuild(schema) ==
  /\ schema \notin InvalidSchemas
  /\ ~Exists(schemaFilename(schema))
  /\ ~Exists(tmpFilename(schema))
  /\ files' = WriteFile(files, schemaFilename(schema), "built elsewhere")
  /\ UNCHANGED <<openDbs, faults, sfVars, runnersMap, call, runners, procVars, histVars>>

\* The library called by the goroutines of this process, without deadlines,
\* while another process shares the directory.
NextShared ==
  \/ \E p \in Procs :
       \/ \E s \in Schemas : Constructing < MaxRunners /\ CallNewSQLRunner(p, s)
       \/ \E r \in 1..Len(runners), q \in Queries : CallQuery(p, r, q, "none")
       \/ Library(p)
  \/ \E s \in Schemas : PeerBuild(s)

SpecShared == Init /\ [][NextShared]_vars

Spec == Init /\ [][Next]_vars

\* ---------------------------------------------------------------- claims
\* Goroutines executing initialize for `schema` past the existence check.
BuildLabels == {"openTmp", "pragma", "execSchema", "rename", "initDefer"}

Builders(schema) == {p \in Procs : pc[p] \in BuildLabels /\ lschema[p] = schema}

\* C1: at no time are two executions of initialize past the existence check
\* in progress for the same schema, whichever entry point they come from.
C1_OneBuilderPerAddress == \A s \in AllSchemas : Cardinality(Builders(s)) <= 1

\* C1 witness: a build is in progress while another caller of the same schema
\* waits for it in the singleflight group instead of building.
C1_Witness ==
  \E p \in Procs, w \in Procs :
    /\ p # w
    /\ pc[p] \in BuildLabels
    /\ pc[w] = "sfWait"
    /\ lschema[w] = lschema[p]

\* C2 (as stated): the build step runs at most once per schema address over
\* the process lifetime.
C2_BuildAtMostOnce == \A s \in AllSchemas : builds[s] <= 1

\* C2 (amended): a build is promoted to its final path at most once per schema
\* address; while the artifact exists no call builds that address: initialize
\* returns the existing path from the existence check.
C2_SuccessfulBuildOnce ==
  /\ \A s \in AllSchemas : promoted[s] <= 1
  /\ \A p \in Procs :
       /\ pc[p] \in {"openTmp", "pragma", "execSchema", "rename"}
            => ~Exists(schemaFilename(lschema[p]))
       /\ (pc[p] = "gsiAfter" /\ lerr[p] = NoErr)
            => lfile[p] = schemaFilename(lschema[p]) /\ Exists(lfile[p])

\* C2 witness: after the one build of a schema, a later call (a cache-missing
\* Query) has been handed the existing path by initialize.
C2_Witness ==
  \E p \in Procs :
    /\ pc[p] = "gsiAfter"
    /\ stage[p] = "query"
    /\ lerr[p] = NoErr
    /\ builds[lschema[p]] = 1
    /\ promoted[lschema[p]] = 1

\* The Serve call of p has its Runner from findRunner.
Resolved(p) ==
  \/ pc[p] = "idle" /\ resp[p].op = "serve" /\ resp[p].runner # NoRunner
  \/ op[p] = "serve" /\ stage[p] = "query"
  \/ op[p] = "serve" /\ pc[p] = "afterFind" /\ lerr[p] = NoErr

RunnerHeld(p) == IF pc[p] = "idle" THEN resp[p].runner ELSE lrunner[p]

\* C3: callers that concurrently resolve the same never-before-seen schema
\* text all receive the same Runner (one NewSQLRunner call serves them all).
C3_ConcurrentResolveOneRunner ==
  \A p \in Procs, w \in Procs :
    (/\ w \in peers[p]
     /\ atStart[p].fresh /\ atStart[w].fresh
     /\ Resolved(p) /\ Resolved(w))
    => RunnerHeld(p) = RunnerHeld(w)

\* C4: once a resolve of a schema has succeeded, a later resolve of the same
\* text returns that Runner and makes no call into NewSQLRunner / initialize.
C4_HitReturnsExistingRunner ==
  \A p \in Procs :
    atStart[p].prior # NoRunner =>
      /\ ~(InFindRunner(p) /\ pc[p] \notin {"findRunner", "svcDo", "svcWait"})
      /\ Resolved(p) => RunnerHeld(p) = atStart[p].prior

\* C5: a request whose (schema, query) pair has already been answered with
\* success is answered without executing the query on the engine again.
C5_NoReexecution ==
  \A p \in Procs :
    (op[p] = "serve" /\ atStart[p].done) => pc[p] \notin {"queryColumns", "queryNext"}

\* C6: the service never retains more than 20 Runners (checked on the
\* revision that retains Runners at all, the one with runners sync.Map).
C6_RunnerCacheBounded == Cardinality(DOMAIN runnersMap) <= 20

LeastRecent(r) ==
  LET keys == CacheKeys(runners[r].cache)
      pos(k) == CHOOSE i \in 1..Len(recency[r]) : recency[r][i] = k
  IN CHOOSE k \in keys : \A j \in keys : pos(j) <= pos(k)

\* C8: a step removes a key from a result cache only when a new key is
\* inserted into the full cache, and then it removes exactly one key, the
\* least recently used one, a hit counting as a use; an insertion into a full
\* cache always removes one.
C8_LruEviction ==
  [][\A r \in 1..Len(runners) :
       LET gone == CacheKeys(runners[r].cache) \ CacheKeys(runners'[r].cache)
           come == CacheKeys(runners'[r].cache) \ CacheKeys(runners[r].cache)
           full == Len(runners[r].cache) = ResultCacheSize
       IN /\ gone # {} => full /\ Cardinality(come) = 1 /\ gone = {LeastRecent(r)}
          /\ (come # {} /\ full) => Cardinality(gone) = 1
          /\ Len(runners'[r].cache) >= Len(runners[r].cache)]_vars

\* C8 witness: the first text was hit when the cache was full, then a new text
\* was inserted: the first text is still cached, next to the new one, and the
\* second text is the one that left.
C8_Witness ==
  \E r \in 1..Len(runners) :
    /\ Len(runners[r].cache) = ResultCacheSize
    /\ ResultCacheSize >= 2
    /\ runners[r].cache[1].key = FirstKey + ResultCacheSize
    /\ runners[r].cache[2].key = FirstKey
    /\ (FirstKey + 1) \notin CacheKeys(runners[r].cache)

\* In this step goroutine p's Query finds its text in the cache.
HitStep(p) ==
  /\ pc[p] = "queryGet"
  /\ pc'[p] # "queryGet"
  /\ lquery[p] \in CacheKeys(runners[lrunner[p]].cache)

\* The step returns to p's caller the result stored for its text, and opens
\* no handle.
ReturnsStored(p) ==
  /\ pc'[p] = "idle"
  /\ openDbs' = openDbs
  /\ resp'[p].ok
  /\ resp'[p].data = CacheValue(runners[lrunner[p]].cache, lquery[p])

\* The step leaves the result stored under every key that stays cached.
StoredUnchanged ==
  \A r \in 1..Len(runners) :
    \A k \in CacheKeys(runners[r].cache) \cap CacheKeys(runners'[r].cache) :
      CacheValue(runners'[r].cache, k) = CacheValue(runners[r].cache, k)

\* C9: a Query that finds its text in the cache returns the cached result as
\* it is and returns at once (no handle opened, nothing executed); and no step
\* changes the result stored under a key that stays in a cache.
C9_HitReturnsStoredUnchanged ==
  [][(\A p \in Procs : HitStep(p) => ReturnsStored(p)) /\ StoredUnchanged]_vars

\* C10: any two successful Query calls for the same schema and query text
\* return the same result, whichever Runner and whichever path answered.
C10_SameResultEveryTime ==
  \A p \in Procs, w \in Procs :
    (/\ resp[p].op \in {"query", "serve"} /\ resp[p].ok
     /\ resp[w].op \in {"query", "serve"} /\ resp[w].ok
     /\ resp[p].schema = resp[w].schema
     /\ resp[p].query = resp[w].query)
    => resp[p].data = resp[w].data

\* C11: distinct schema texts have distinct artifact paths (and one text has
\* one path); the path a call is handed is the one of its own schema text, and
\* the Runner a call holds or was answered by was constructed for its own
\* schema text, so is its result.
C11_DistinctSchemasShareNothing ==
  /\ \A s \in AllSchemas, u \in AllSchemas :
       (s = u) <=> (schemaFilename(s) = schemaFilename(u))
  /\ \A p \in Procs :
       /\ (pc[p] \in {"initDefer", "gsiAfter"} /\ lerr[p] = NoErr)
            => lfile[p] = schemaFilename(lschema[p])
       /\ lrunner[p] # NoRunner => runners[lrunner[p]].schema = lschema[p]
       /\ resp[p].runner # NoRunner => runners[resp[p].runner].schema = resp[p].schema
       /\ resp[p].ok =>
            \A i \in 1..Len(resp[p].data.Rows) :
              resp[p].data.Rows[i] = EngineRow(resp[p].schema, resp[p].query, i)

\* C11 witness: two clients with different schema texts have both been
\* answered with success for the same query text, by different Runners, while
\* the artifacts of both texts exist.
C11_Witness ==
  \E p \in Procs, w \in Procs :
    /\ resp[p].ok /\ resp[w].ok
    /\ resp[p].schema # resp[w].schema
    /\ resp[p].query = resp[w].query
    /\ Len(resp[p].data.Rows) > 0 /\ Len(resp[w].data.Rows) > 0
    /\ resp[p].runner # resp[w].runner
    /\ Exists(schemaFilename(resp[p].schema)) /\ Exists(schemaFilename(resp[w].schema))

\* The error Query returns when db.QueryContext finds the deadline elapsed.
DeadlineQueryError == NewQueryError(<<"context deadline exceeded">>)

\* In this step a Query call of goroutine p, given a context whose deadline had
\* elapsed at the call, returns.
ExpiredCallReturns(p) ==
  /\ op[p] = "query"
  /\ ctx[p] = "done"
  /\ pc[p] # "idle"
  /\ pc'[p] = "idle"

\* C12 (as stated): a Query call whose deadline has elapsed at call time
\* returns a QueryError whose parent is deadline-exceeded, never a success.
C12_ExpiredAlwaysQueryError ==
  [][\A p \in Procs :
       ExpiredCallReturns(p) => ~resp'[p].ok /\ resp'[p].err = DeadlineQueryError]_vars

\* C12 (amended): such a call succeeds only from the result cache, with the
\* stored result; when its text is not cached it fails, and when the database
\* could be opened the error is the QueryError with the deadline-exceeded
\* parent.
C12_ExpiredMissIsQueryError ==
  [][\A p \in Procs :
       ExpiredCallReturns(p) =>
         IF pc[p] = "queryGet"
           THEN /\ lquery[p] \in CacheKeys(runners[lrunner[p]].cache)
                /\ resp'[p].ok
                /\ resp'[p].data = CacheValue(runners[lrunner[p]].cache, lquery[p])
           ELSE /\ pc[p] = "queryContext"
                /\ ~resp'[p].ok
                /\ resp'[p].data = NilResult
                /\ lerr[p] = NoErr => resp'[p].err = DeadlineQueryError]_vars

\* C12 witness: a Query call given an elapsed deadline, for a valid text that
\* is not cached, has returned the QueryError with the deadline-exceeded parent.
C12_Witness ==
  \E p \in Procs :
    /\ pc[p] = "idle"
    /\ resp[p].op = "query"
    /\ resp[p].ctx = "done"
    /\ resp[p].query \notin InvalidQueries
    /\ resp[p].query \notin CacheKeys(runners[resp[p].runner].cache)
    /\ ~resp[p].ok
    /\ resp[p].err = DeadlineQueryError

\* In this step goroutine p's Query returns after db.QueryContext had started
\* the statement (from reading the columns or from the row loop).
ExecutionReturns(p) ==
  /\ pc[p] \in {"queryColumns", "queryNext"}
  /\ pc'[p] = "idle"

\* C13: a Query whose statement was started either returns the complete
\* result (the deadline did not elapse before the last row) or the QueryError
\* with the deadline-exceeded parent; a success is never a partial result.
C13_DeadlineAbortsWithQueryError ==
  [][\A p \in Procs :
       ExecutionReturns(p) =>
         IF resp'[p].ok
           THEN resp'[p].data = FullResult(lschema[p], lquery[p])
           ELSE resp'[p].err = DeadlineQueryError /\ resp'[p].data = NilResult]_vars


\* The engine's failure of a text that fails at statement start or at a later
\* row, as Query reports it.
EngineQueryError == NewQueryError(<<"engine">>)

\* A Query call whose text the engine fails returns after reaching the engine.
FailingCallReturns(p) ==
  /\ op[p] = "query" /\ ctx[p] = "none"
  /\ lquery[p] \in InvalidQueries \cup LateFailQueries
  /\ pc[p] \in {"queryContext", "queryColumns", "queryNext"} /\ lerr[p] = NoErr
  /\ pc'[p] = "idle"

\* C14: a Query whose text the engine fails for a reason other than the
\* deadline, at statement start or while a later row is stepped, returns a
\* QueryError wrapping the engine's cause and no result.
C14_EngineFailureIsQueryError ==
  [][\A p \in Procs :
       FailingCallReturns(p) =>
         ~resp'[p].ok /\ resp'[p].err = EngineQueryError /\ resp'[p].data = NilResult]_vars


\* A Query call hands a write statement to the engine.
WriteReachesEngine(p) ==
  pc[p] = "queryContext" /\ lerr[p] = NoErr /\ lquery[p] \in WriteQueries

\* A write statement ends the call with a QueryError and no result, and
\* touches neither the files nor any Runner's cache.
WriteRejected(p) ==
  /\ pc'[p] = "idle"
  /\ ~resp'[p].ok
  /\ ErrorsAs(resp'[p].err, "QueryError")
  /\ resp'[p].data = NilResult
  /\ files' = files
  /\ runners' = runners

\* The database of a schema holds what the build wrote.
ArtifactsAsBuilt ==
  \A s \in AllSchemas :
    schemaFilename(s) \in DOMAIN files' => files'[schemaFilename(s)] = "built"

\* A read that succeeds returns the rows of the schema's database.
ReadsReturnFull(p) ==
  (/\ op[p] = "query" /\ lquery[p] \in 1..NumQueries
   /\ pc'[p] = "idle" /\ resp'[p].ok)
    => resp'[p].data = FullResult(lschema[p], lquery[p])

\* C15: a statement that writes the schema's database, executed through
\* Query, yields a QueryError; the materialized database is left as built and
\* every read, before or after, returns the same rows.
C15_WriteRejectedArtifactUnchanged ==
  [][\A p \in Procs :
       (WriteReachesEngine(p) => WriteRejected(p))
         /\ ArtifactsAsBuilt /\ ReadsReturnFull(p)]_vars

C15_Witness ==
  \E p \in Procs :
    /\ pc[p] = "idle" /\ resp[p].op = "query" /\ resp[p].query \in WriteQueries
    /\ ErrorsAs(resp[p].err, "QueryError")
    /\ \E q \in 1..NumQueries : q \in CacheKeys(runners[resp[p].runner].cache)
    /\ files[schemaFilename(resp[p].schema)] = "built"


\* The QueryResult with no column and no row (a non-nil *QueryResult).
EmptyResult == [nil |-> FALSE, Columns |-> << >>, Rows |-> << >>]

\* A Query call with the empty text returns, the schema's database having
\* been opened.
EmptyCallReturns(p) ==
  /\ op[p] = "query" /\ lquery[p] \in EmptyTexts
  /\ ~(pc[p] = "queryContext" /\ lerr[p] # NoErr)
  /\ pc[p] # "idle" /\ pc'[p] = "idle"

\* C16: Query with the empty query text succeeds and returns a non-nil
\* QueryResult with zero columns and zero rows.
C16_EmptyQueryEmptyResult ==
  [][\A p \in Procs :
       EmptyCallReturns(p) => resp'[p].ok /\ resp'[p].data = EmptyResult]_vars

C16_Witness ==
  \E p \in Procs :
    /\ pc[p] = "idle" /\ resp[p].op = "query" /\ resp[p].query \in EmptyTexts
    /\ resp[p].ok /\ ~resp[p].data.nil
    /\ Len(resp[p].data.Columns) = 0 /\ Len(resp[p].data.Rows) = 0


\* What NewSQLRunner returns when the engine fails the schema text.
SchemaExecError == Wrap("initialize sqlite", NewSchemaError(<<"engine">>))

\* A NewSQLRunner call for a schema text the engine fails returns.
InvalidSchemaReturns(p) ==
  /\ op[p] = "new" /\ lschema[p] \in InvalidSchemas
  /\ pc[p] # "idle" /\ pc'[p] = "idle"

\* No Runner and a SchemaError; the engine's cause unless a fault of the
\* system kept the schema from being executed.
NoRunnerSchemaError(p) ==
  /\ resp'[p].runner = NoRunner
  /\ ~resp'[p].ok
  /\ ErrorsAs(resp'[p].err, "SchemaError")
  /\ faults = 0 => resp'[p].err = SchemaExecError
  /\ runners' = runners
  /\ schemaFilename(lschema[p]) \notin DOMAIN files'

\* C17: when executing the schema text fails, NewSQLRunner returns no Runner
\* and a SchemaError wrapping the engine's cause, for every caller resolving
\* that schema, before and after the failed attempt.
C17_InvalidSchemaIsSchemaError ==
  [][\A p \in Procs : InvalidSchemaReturns(p) => NoRunnerSchemaError(p)]_vars

C17_Witness ==
  /\ \A p \in Procs :
       /\ pc[p] = "idle" /\ resp[p].op = "new" /\ resp[p].schema \in InvalidSchemas
       /\ resp[p].runner = NoRunner /\ resp[p].err = SchemaExecError
  /\ \E s \in InvalidSchemas : builds[s] = 2 /\ schemaFilename(s) \notin DOMAIN files


\* Goroutine p answers a request whose body does not bind or has an empty
\* schema or query text.
BadPayloadAnswered(p) ==
  /\ resp'[p] # resp[p]
  /\ resp'[p].op = "serve"
  /\ \/ resp'[p].schema \in EmptyTexts \cup Unbindable
     \/ resp'[p].query \in EmptyTexts

\* The answer is the failure BAD_PAYLOAD, given at once: no Runner is looked
\* up or built, no file or connection is touched, no call is begun.
RefusedAtOnce(p) ==
  /\ pc[p] = "idle" /\ pc'[p] = "idle"
  /\ ~resp'[p].ok
  /\ resp'[p].code = "BAD_PAYLOAD"
  /\ ErrorsAs(resp'[p].err, "BadPayloadError")
  /\ resp'[p].runner = NoRunner /\ resp'[p].data = NilResult
  /\ UNCHANGED <<fsVars, sfVars, runnersMap, runners, builds, pc, op, stage>>

\* No request being served carries such a text into findRunner or Query.
NoBadTextServed ==
  \A p \in Procs :
    op'[p] = "serve" =>
      /\ lschema'[p] \notin EmptyTexts \cup Unbindable
      /\ lquery'[p] \notin EmptyTexts

\* C18: a request with an empty schema or query text, or a body that does not
\* bind, is answered BAD_PAYLOAD; it resolves no Runner, starts no build and
\* executes no query.
C18_BadPayloadRefused ==
  [][(\A p \in Procs : BadPayloadAnswered(p) => RefusedAtOnce(p))
       /\ NoBadTextServed]_vars

C18_Witness ==
  /\ \E p \in Procs :
       /\ resp[p].op = "serve" /\ resp[p].code = "BAD_PAYLOAD"
       /\ resp[p].schema \in 1..NumSchemas /\ resp[p].query \in EmptyTexts
  /\ \E p \in Procs :
       /\ resp[p].op = "serve" /\ resp[p].code = "BAD_PAYLOAD"
       /\ resp[p].schema \in Unbindable
  /\ \A s \in 1..NumSchemas : builds[s] = 0 /\ RunnersOf(s) = {}


\* The codes of the README.
ErrorCodes == {"BAD_PAYLOAD", "SCHEMA_ERROR", "QUERY_ERROR", "INTERNAL_ERROR"}

\* The kind of an error: the outermost typed error of its chain, if any.
KindOf(err) ==
  IF \E i \in 1..Len(err) : err[i] \in ErrorTypes
    THEN err[CHOOSE i \in 1..Len(err) :
               err[i] \in ErrorTypes /\ \A j \in 1..(i - 1) : err[j] \notin ErrorTypes]
    ELSE "other"

CodeOfKind(kind) ==
  CASE kind = "BadPayloadError" -> "BAD_PAYLOAD"
    [] kind = "SchemaError" -> "SCHEMA_ERROR"
    [] kind = "QueryError" -> "QUERY_ERROR"
    [] OTHER -> "INTERNAL_ERROR"

\* C19: every failure response of the service carries exactly one of the four
\* codes, the one of the error's kind, whatever its message; a success
\* response carries the QueryResult and no code.
C19_CodeFromKind ==
  \A p \in Procs :
    resp[p].op = "serve" =>
      IF resp[p].ok
        THEN resp[p].code = "" /\ resp[p].err = NoErr /\ ~resp[p].data.nil
        ELSE /\ resp[p].err # NoErr
             /\ resp[p].code \in ErrorCodes
             /\ resp[p].code = CodeOfKind(KindOf(resp[p].err))
             /\ resp[p].data = NilResult

C19_Witness ==
  \E p \in Procs, w \in Procs :
    /\ resp[p].op = "serve" /\ resp[p].ok /\ ~resp[p].data.nil
    /\ resp[w].op = "serve" /\ resp[w].code = "QUERY_ERROR"
    /\ KindOf(resp[w].err) = "QueryError"


\* The callers of one flight of sf for schema s: the one that runs initialize
\* and those waiting for it.
Flight(s) ==
  {u \in Procs : lschema[u] = s /\ pc[u] \in BuildLabels \cup {"stat", "sfWait"}}

\* A waiter of sf is released.
WaiterReleased(w) == pc[w] = "sfWait" /\ pc'[w] # "sfWait"

\* Every caller of the flight leaves it with the same error and the same
\* path, the path of the schema's database when there is no error.
SameOutcome(w) ==
  \A u \in Flight(lschema[w]) :
    /\ pc'[u] = "gsiAfter"
    /\ lerr'[u] = lerr'[w]
    /\ lfile'[u] = lfile'[w]
    /\ lerr'[w] = NoErr =>
         /\ lfile'[w] = schemaFilename(lschema[w])
         /\ schemaFilename(lschema[w]) \in DOMAIN files'

\* C20: all callers waiting on the same in-flight build of a schema receive
\* the same outcome, the same path or the same error; none gets a path while
\* another caller of that build gets an error.
C20_WaitersShareOutcome ==
  [][\A w \in Procs : WaiterReleased(w) => SameOutcome(w)]_vars

C20_Witness ==
  \E s \in InvalidSchemas :
    /\ builds[s] = 1
    /\ \A p \in Procs :
         /\ pc[p] = "gsiAfter" /\ lschema[p] = s
         /\ lerr[p] = NewSchemaError(<<"engine">>)

\* The same for the callers of one flight of sfgroup in findRunner: they
\* leave it with the same Runner and the same error.
FindRunnerWaitersShare ==
  [][\A w \in Procs :
       (pc[w] = "svcWait" /\ pc'[w] # "svcWait") =>
         \A u \in Procs :
           (lschema[u] = lschema[w] /\ pc[u] \in {"svcWait", "fnReturn"}) =>
             /\ pc'[u] = pc'[w]
             /\ lerr'[u] = lerr'[w]
             /\ lrunner'[u] = lrunner'[w]]_vars


\* Reading a text back: the digit a character stands for, the number a run
\* of decimal digits stands for.
IsDigits(text) == \A i \in 1..Len(text) : \E d \in 1..10 : DigitChars[d] = text[i]

DigitOf(c) == (CHOOSE d \in 1..16 : HexChars[d] = c) - 1

RECURSIVE ParseNat(_)
ParseNat(text) ==
  IF text = << >> THEN 0
  ELSE 10 * ParseNat(SubSeq(text, 1, Len(text) - 1)) + DigitOf(text[Len(text)])

\* text is the decimal text of the integer v: a minus sign only if v is
\* negative, no plus sign, no redundant leading zero.
IsDecimalOf(text, v) ==
  LET digits == IF v < 0 THEN Tail(text) ELSE text
  IN /\ text # << >>
     /\ v < 0 => text[1] = "-"
     /\ digits # << >> /\ IsDigits(digits)
     /\ Len(digits) > 1 => digits[1] # "0"
     /\ ParseNat(digits) = (IF v < 0 THEN -v ELSE v)

\* text is the lowercase hexadecimal text of the bytes, two digits each.
IsHexOf(text, bytes) ==
  /\ Len(text) = 2 * Len(bytes)
  /\ \A i \in 1..Len(text) : \E d \in 1..16 : HexChars[d] = text[i]
  /\ \A i \in 1..Len(bytes) :
       16 * DigitOf(text[2 * i - 1]) + DigitOf(text[2 * i]) = bytes[i]

\* text is YYYY-MM-DD HH:MM:SS of the timestamp and nothing more.
IsTimestampOf(text, t) ==
  /\ Len(text) = 19
  /\ text[5] = "-" /\ text[8] = "-" /\ text[11] = " "
  /\ text[14] = ":" /\ text[17] = ":"
  /\ \A r \in {<<1, 4>>, <<6, 7>>, <<9, 10>>, <<12, 13>>, <<15, 16>>, <<18, 19>>} :
       IsDigits(SubSeq(text, r[1], r[2]))
  /\ ParseNat(SubSeq(text, 1, 4)) = t.year
  /\ ParseNat(SubSeq(text, 6, 7)) = t.month
  /\ ParseNat(SubSeq(text, 9, 10)) = t.day
  /\ ParseNat(SubSeq(text, 12, 13)) = t.hour
  /\ ParseNat(SubSeq(text, 15, 16)) = t.min
  /\ ParseNat(SubSeq(text, 18, 19)) = t.sec

Encodes(text, value) ==
  CASE value.type = "int64" -> IsDecimalOf(text, value.v)
    [] value.type = "bool" -> text = (IF value.v THEN <<"1">> ELSE <<"0">>)
    [] value.type = "bytes" -> IsHexOf(text, value.v)
    [] value.type = "string" -> text = value.v
    [] value.type = "time" -> IsTimestampOf(text, value.v)
    [] value.type = "nil" -> text = <<"N", "U", "L", "L">>
    [] OTHER -> TRUE

\* C21: StringScanner.Scan never returns an error, and keeps an integer as
\* its decimal text (a sign only if negative), true as "1" and false as "0",
\* a blob as lowercase hexadecimal with two digits per byte, a text
\* unchanged, a timestamp as YYYY-MM-DD HH:MM:SS, and null as "NULL".
C21_ScanEncodes ==
  call.fn = "Scan" =>
    call.out.err = NoErr /\ Encodes(call.out.value, call.in)

C21_Witness ==
  /\ call.fn = "Scan"
  /\ call.in.type = "bytes"
  /\ call.in.v = <<104, 101, 108, 108, 111>>
  /\ call.out.value = <<"6", "8", "6", "5", "6", "c", "6", "c", "6", "f">>


\* Reading a decimal text back as a float64: sign, digits without the zeros
\* at either end, position of the decimal point.
RECURSIVE StripLeft(_)
StripLeft(ds) == IF ds # << >> /\ Head(ds) = 0 THEN StripLeft(Tail(ds)) ELSE ds

RECURSIVE StripRight(_)
StripRight(ds) ==
  IF ds # << >> /\ ds[Len(ds)] = 0 THEN StripRight(SubSeq(ds, 1, Len(ds) - 1)) ELSE ds

Unsigned(text) == IF text # << >> /\ text[1] = "-" THEN Tail(text) ELSE text

PointAt(body) ==
  IF \E i \in 1..Len(body) : body[i] = "."
    THEN CHOOSE i \in 1..Len(body) : body[i] = "."
    ELSE Len(body) + 1

IntPart(text) == SubSeq(Unsigned(text), 1, PointAt(Unsigned(text)) - 1)
FracPart(text) == SubSeq(Unsigned(text), PointAt(Unsigned(text)) + 1, Len(Unsigned(text)))

\* text is positional decimal notation: digits, at most one point with
\* digits on both sides, no exponent.
IsPositional(text) ==
  /\ IntPart(text) # << >> /\ IsDigits(IntPart(text)) /\ IsDigits(FracPart(text))
  /\ PointAt(Unsigned(text)) <= Len(Unsigned(text)) => FracPart(text) # << >>

\* and has no digit to spare: no zero before the integer part, none at the
\* end of the fraction.
IsShortest(text) ==
  /\ Len(IntPart(text)) > 1 => IntPart(text)[1] # "0"
  /\ FracPart(text) # << >> => FracPart(text)[Len(FracPart(text))] # "0"

ParseFloat(text) ==
  LET all == [i \in 1..(Len(IntPart(text)) + Len(FracPart(text))) |->
                DigitOf((IntPart(text) \o FracPart(text))[i])]
      kept == StripRight(StripLeft(all))
  IN [neg |-> text # << >> /\ text[1] = "-",
      digits |-> kept,
      dp |-> IF kept = << >> THEN 0
             ELSE Len(IntPart(text)) - (Len(all) - Len(StripLeft(all)))]

\* C22: a floating-point cell is kept as the shortest decimal text that reads
\* back as the same number, in positional notation and never with an
\* exponent, whatever its magnitude.
C22_FloatShortestNoExponent ==
  (call.fn = "Scan" /\ call.in.type = "float64") =>
    /\ \A i \in 1..Len(call.out.value) : call.out.value[i] \notin {"e", "E"}
    /\ IsPositional(call.out.value)
    /\ IsShortest(call.out.value)
    /\ ParseFloat(call.out.value) = call.in.v

C22_Witness ==
  /\ call.fn = "Scan" /\ call.in.type = "float64"
  /\ call.in.v.dp = 10 /\ Len(call.in.v.digits) = 12
  /\ call.out.value =
       <<"1", "1", "4", "5", "1", "4", "1", "9", "1", "9", ".", "8", "1">>


\* LEFT is called with a text and an integer.
LeftOfText == call.fn = "LEFT" /\ call.in[1].type = "string" /\ call.in[2].type = "int64"

\* C23: LEFT(s, n) returns the first n characters of s for 0 <= n <= len(s),
\* s unchanged when n exceeds len(s), and fails when n is negative, for every
\* text s, multi-byte characters included.
C23_LeftFirstCharacters ==
  LeftOfText =>
    LET s == call.in[1].v
        n == call.in[2].v
    IN IF n < 0 THEN call.out.err # NoErr
       ELSE /\ call.out.err = NoErr
            /\ call.out.value =
                 BytesOf(IF n > Len(s) THEN s ELSE SubSeq(s, 1, n))

\* The same for the texts whose characters are one byte each.
C23_LeftSingleByte ==
  (LeftOfText /\ \A i \in 1..Len(call.in[1].v) : Len(call.in[1].v[i]) = 1) =>
    LET s == call.in[1].v
        n == call.in[2].v
    IN IF n < 0 THEN call.out.err # NoErr
       ELSE /\ call.out.err = NoErr
            /\ call.out.value =
                 BytesOf(IF n > Len(s) THEN s ELSE SubSeq(s, 1, n))


\* The text is a date of the calendar followed by the fields of an accepted
\* format, once a trailing Z is taken off.
IsTimestamp(text) ==
  \E tail \in AcceptedTails, z \in 0..1 :
    /\ Len(text) = 1 + Len(tail) + z
    /\ text[1].kind = "date"
    /\ text[1].month \in 1..12
    /\ text[1].day \in 1..DaysIn(text[1].year, text[1].month)
    /\ \A i \in 1..Len(tail) : text[1 + i].kind = tail[i]
    /\ z = 1 => text[Len(text)].kind = "Z"

\* The component a date function is asked for.
Component(part, t) ==
  CASE part = "YEAR" -> t.year [] part = "MONTH" -> t.month [] part = "DAY" -> t.day

DateFunctionCalled == call.fn \in {"YEAR", "MONTH", "DAY"}

\* The function returns the component of the text's date if the text is a
\* timestamp, and that of the zero date otherwise.
ComponentOrFallback ==
  /\ call.out.err = NoErr
  /\ call.out.value.type = "int64"
  /\ call.out.value.v =
       Component(call.fn,
                 IF call.in.type = "string" /\ IsTimestamp(call.in.v)
                   THEN call.in.v[1] ELSE ZeroTime)

\* C24: YEAR, MONTH and DAY never fail on input that cannot be parsed as a
\* timestamp, be it malformed text or no text at all (NULL, a number): they
\* return the component of the zero date; for text in an accepted format,
\* after stripping a trailing Z, they return the component of the parsed date.
C24_DateNeverFails == DateFunctionCalled => ComponentOrFallback

\* C24 as amended: so for every text; a value that is not a text fails the
\* function with an error naming its type.
C24_DateOfText ==
  DateFunctionCalled =>
    IF call.in.type = "string" THEN ComponentOrFallback
    ELSE /\ call.out.err = <<"parse date", "invalid date type", call.in.type>>
         /\ call.out.value.type = "nil"

C24_Witness ==
  /\ call.fn = "MONTH" /\ call.in.type = "string"
  /\ Len(call.in.v) = 5 /\ call.in.v[2].kind = "T" /\ call.in.v[5].kind = "Z"
  /\ call.in.v[1].month = 2
  /\ call.out.value.v = 2

C24_FallbackWitness ==
  /\ call.fn = "YEAR" /\ call.in.type = "string"
  /\ ~IsTimestamp(call.in.v) /\ call.in.v # << >> /\ call.in.v[1].kind = "date"
  /\ call.out.value.v = 1


\* A QueryResult that is there, with as many cells in each row as columns
\* and no row when it has no column.
WellShaped(result) ==
  /\ ~result.nil
  /\ \A i \in 1..Len(result.Rows) : Len(result.Rows[i]) = Len(result.Columns)
  /\ Len(result.Columns) = 0 => Len(result.Rows) = 0

\* C25: every QueryResult returned by Query or stored in a result cache has
\* exactly len(columns) cells in every row and no row if it has no column; a
\* successful Query never returns an absent result.
C25_ResultShape ==
  /\ \A p \in Procs : (resp[p].op = "query" /\ resp[p].ok) => WellShaped(resp[p].data)
  /\ \A r \in 1..Len(runners) :
       \A i \in 1..Len(runners[r].cache) : WellShaped(runners[r].cache[i].value)

C25_Witness ==
  \E p \in Procs, r \in 1..Len(runners) :
    /\ resp[p].op = "query" /\ resp[p].ok /\ Len(resp[p].data.Rows) > 0
    /\ \E i \in 1..Len(runners[r].cache) :
         Len(runners[r].cache[i].value.Columns) = 0
    /\ \E i \in 1..Len(runners[r].cache) :
         Len(runners[r].cache[i].value.Rows) > 0


FinalPaths == {schemaFilename(s) : s \in AllSchemas}

\* Goroutine p holds, or is about to open, a read-only handle on the file
\* initializeThreadSafe gave it.
ReadsArtifact(p) ==
  /\ lerr[p] = NoErr
  /\ pc[p] \in {"gsiAfter", "newReturn", "queryContext", "queryColumns", "queryNext"}

\* What stands at a final path is a database the whole schema text ran on.
FinalIsBuilt == \A f \in FinalPaths : Exists(f) => files[f] = "built"

ReadersSeeBuilt ==
  \A p \in Procs :
    ReadsArtifact(p) =>
      /\ lfile[p] = schemaFilename(lschema[p])
      /\ Exists(lfile[p])
      /\ files[lfile[p]] = "built"

\* A final path comes into existence in the one step that renames the
\* temporary database, after the schema text ran on it without error.
AppearsByRename ==
  \A s \in AllSchemas :
    (~Exists(schemaFilename(s)) /\ schemaFilename(s) \in DOMAIN files') =>
      /\ \E p \in Procs : pc[p] = "rename" /\ lschema[p] = s /\ pc'[p] = "initDefer"
      /\ Exists(tmpFilename(s)) /\ files[tmpFilename(s)] = "built"
      /\ tmpFilename(s) \notin DOMAIN files'
      /\ files'[schemaFilename(s)] = "built"
      /\ s \notin InvalidSchemas

C26_Step == FinalIsBuilt' /\ ReadersSeeBuilt' /\ AppearsByRename

\* C26: no reader opens a partially built artifact: a file is at a final path
\* only once the whole schema text has run without error on the temporary
\* database, it gets there in the one rename step, and every read-only open of
\* the final path comes after that.
C26_NoPartialArtifactRead == [][C26_Step]_vars

C26_Witness ==
  \E p, q \in Procs :
    /\ p # q
    /\ ReadsArtifact(p) /\ pc[p] = "queryNext" /\ promoted[lschema[p]] > 0
    /\ pc[q] \in {"execSchema", "initDefer"} /\ lschema[q] \in InvalidSchemas


\* The step in which goroutine p's initialize returns an error.
BuildFails(p) ==
  /\ pc[p] \in {"openTmp", "initDefer"}
  /\ pc'[p] = "gsiAfter"
  /\ lerr'[p] # NoErr

\* A build that is about to open or create its temporary database finds no
\* file at the temporary path.
StartsFresh ==
  \A p \in Procs :
    pc[p] \in {"openTmp", "pragma"} => ~Exists(tmpFilename(lschema[p]))

NothingLeft(p) ==
  /\ tmpFilename(lschema[p]) \notin DOMAIN files'
  /\ schemaFilename(lschema[p]) \notin DOMAIN files'

C27_Step == StartsFresh' /\ \A p \in Procs : BuildFails(p) => NothingLeft(p)

\* C27: after a build that fails at any step (open, foreign keys, schema,
\* rename) there is no file at the temporary path and none at the final path,
\* so that a later build of the address starts from a fresh empty database.
C27_FailedBuildLeavesNothing == [][C27_Step]_vars

\* a second build of a schema whose first build failed is at work on an empty
\* temporary database
C27_Witness ==
  \E p \in Procs :
    /\ pc[p] = "execSchema"
    /\ builds[lschema[p]] > 0 /\ promoted[lschema[p]] = 0
    /\ files[tmpFilename(lschema[p])] = "empty"
    /\ \E q \in Procs : q # p /\ resp[q].op # "none" /\ ~resp[q].ok
                        /\ resp[q].schema = lschema[p]


\* What is at a final path stays there, the same file, over the step.
ArtifactKept(f) == Exists(f) => f \in DOMAIN files' /\ files'[f] = files[f]

\* C28: once an artifact is at its final path, no operation of the core
\* deletes, replaces or modifies it.
C28_ArtifactImmutable == [][\A f \in FinalPaths : ArtifactKept(f)]_vars

\* (C28 with the goroutines of one process alone in the directory)
C28_AloneInDirectory ==
  [][\A f \in FinalPaths : ArtifactKept(f) /\ (Exists(f) => files[f] = "built")]_vars

\* The step in which builder p's promotion (os.Rename) succeeds or fails.
Promotes(p) == pc[p] = "rename" /\ pc'[p] = "initDefer"

\* C29: a builder that reaches the promotion step when an artifact is already
\* at the final path keeps that artifact and discards its own; the existing
\* one is never overwritten.
C29_ExistingArtifactKept ==
  [][\A p \in Procs : Promotes(p) => ArtifactKept(schemaFilename(lschema[p]))]_vars


\* Goroutine q runs initialize for the key, as the leader of a call of sf.
LeadsBuild(q, schema) ==
  /\ lschema[q] = schema
  /\ pc[q] \in {"stat", "openTmp", "pragma", "execSchema", "rename", "initDefer"}

\* Goroutine q runs NewSQLRunner for the key, as the leader of a call of
\* sfgroup.
LeadsConstruction(q, schema) ==
  /\ lschema[q] = schema
  /\ op[q] = "serve" /\ stage[q] = "new"
  /\ pc[q] \in {"sfDo", "sfWait", "stat", "openTmp", "pragma", "execSchema", "rename",
                "initDefer", "gsiAfter", "newReturn", "fnReturn"}

\* A goroutine waits only in a singleflight call, behind the leader of its own
\* key.
WaitsBehindOwnKey ==
  \A p \in Procs :
    /\ pc[p] = "sfWait" => \E q \in Procs \ {p} : LeadsBuild(q, lschema[p])
    /\ pc[p] = "svcWait" => \E q \in Procs \ {p} : LeadsConstruction(q, lschema[p])

\* The next step of goroutine p.
StepOf(p) == findRunner(p) \/ findRunnerFn(p) \/ ServeAfterFind(p) \/ Library(p)

\* A goroutine in a call that does not wait in a singleflight call can take
\* its next step, wherever the other goroutines are.
NoOtherWait ==
  \A p \in Procs : pc[p] \notin {"idle", "sfWait", "svcWait"} => ENABLED StepOf(p)

\* C30: a resolve or materialize call for a schema never waits for work on
\* another schema: it waits only behind the call in flight for its own key,
\* and otherwise its next step can be taken whatever the goroutines working on
\* other schemas do; nothing is locked across a build or a query execution.
C30_NoCrossSchemaWait == WaitsBehindOwnKey /\ NoOtherWait

\* the call for one schema has built its artifact and returned while the build
\* of another schema has not yet run its schema text
C30_Witness ==
  \E p, q \in Procs :
    /\ LeadsBuild(q, lschema[q]) /\ pc[q] \in {"openTmp", "pragma", "execSchema"}
    /\ builds[lschema[q]] = 0
    /\ resp[p].op = "serve" /\ resp[p].ok /\ resp[p].schema # lschema[q]
    /\ promoted[resp[p].schema] > 0 /\ pc[p] = "idle"


\* Goroutine p is in Query with the read-only connection getSqliteInstance
\* opened for it.
HoldsQueryDb(p) ==
  /\ stage[p] = "query"
  /\ \/ pc[p] = "queryContext" /\ lerr[p] = NoErr
     \/ pc[p] \in {"queryColumns", "queryNext"}

\* Goroutine p is in initialize with the temporary database open.
HoldsBuildDb(p) == pc[p] \in {"pragma", "execSchema", "rename", "initDefer"}

\* Goroutine p is in NewSQLRunner with the handle getSqliteInstance opened.
HoldsNewDb(p) == stage[p] = "new" /\ pc[p] = "newReturn" /\ lerr[p] = NoErr

Count(P(_)) == Cardinality({p \in Procs : P(p)})

\* The handles open besides those of the Query calls in progress.
OtherHandles == Len(runners) + Count(HoldsBuildDb) + Count(HoldsNewDb)

QueryConnections == openDbs - OtherHandles

\* The step in which the Query call of goroutine p returns.
QueryReturns(p) == stage[p] = "query" /\ pc[p] # "idle" /\ pc'[p] = "idle"

C31_Step ==
  /\ QueryConnections' = Count(HoldsQueryDb)'
  /\ \A p \in Procs :
       QueryReturns(p) =>
         /\ ~HoldsQueryDb(p)'
         /\ openDbs' = openDbs - (IF HoldsQueryDb(p) THEN 1 ELSE 0)

\* C31: every read-only connection opened by Query is closed before Query
\* returns, on every exit path (success, engine error, column or scan error,
\* timeout): the open query connections are those of the calls in progress,
\* none when every call has returned.
C31_QueryConnectionClosed == [][C31_Step]_vars

\* every call has returned, one of them on a scan error, and no query
\* connection is open
C31_Witness ==
  /\ \A p \in Procs : pc[p] = "idle"
  /\ QueryConnections = 0
  /\ \E p \in Procs : resp[p].op = "query" /\ ~resp[p].ok /\ resp[p].err[1] = "scan"
  /\ \E p \in Procs : resp[p].op = "query" /\ resp[p].ok


Mentions(err, tags) == \E i \in 1..Len(err) : err[i] \in tags

\* The errors initialize returns on a fault of the driver or the filesystem.
InfraFault(err) == Mentions(err, {"open sqlite", "enable foreign keys", "persistent schema"})

\* The error of a schema text the engine refused.
SchemaTextFailed(err) == Mentions(err, {"engine"}) /\ ~Mentions(err, {"QueryError"})

\* The error of sql.Open on the artifact.
ReadOnlyOpenFailed(err) == Mentions(err, {"open schema database (r/o)"})

Failed(p) == resp[p].op = "serve" /\ ~resp[p].ok /\ ~BadPayload(resp[p].schema, resp[p].query)

\* C32: a build that fails on a filesystem or infrastructure fault is answered
\* with INTERNAL_ERROR, and SCHEMA_ERROR is answered only when running the
\* schema text failed.
C32_InfraFaultIsInternal ==
  \A p \in Procs :
    Failed(p) =>
      /\ InfraFault(resp[p].err) => resp[p].code = "INTERNAL_ERROR"
      /\ resp[p].code = "SCHEMA_ERROR" => SchemaTextFailed(resp[p].err)

\* C32 as the code has it: whatever makes the build fail, the failure is a
\* SchemaError and answered with SCHEMA_ERROR; INTERNAL_ERROR is the answer
\* when the artifact is there and opening it read-only fails.
C32_BuildFailureIsSchemaError ==
  \A p \in Procs :
    Failed(p) =>
      /\ (InfraFault(resp[p].err) \/ SchemaTextFailed(resp[p].err)) =>
            /\ ErrorsAs(resp[p].err, "SchemaError")
            /\ resp[p].code = "SCHEMA_ERROR"
      /\ ReadOnlyOpenFailed(resp[p].err) => resp[p].code = "INTERNAL_ERROR"
      /\ resp[p].code = "SCHEMA_ERROR" =>
            (InfraFault(resp[p].err) \/ SchemaTextFailed(resp[p].err))

C32_Witness ==
  \E p \in Procs :
    /\ Failed(p)
    /\ Mentions(resp[p].err, {"persistent schema"})
    /\ resp[p].code = "SCHEMA_ERROR"


Classified(err) == ErrorsAs(err, "SchemaError") \/ ErrorsAs(err, "QueryError")

\* C33: every error NewSQLRunner or Query returns is, or wraps, a SchemaError
\* or a QueryError, also when opening the read-only database, reading the
\* column list or scanning a row fails.
C33_ErrorsClassified ==
  \A p \in Procs :
    (resp[p].op \in {"new", "query"} /\ ~resp[p].ok) => Classified(resp[p].err)

\* (C33 for the errors of the build and of db.QueryContext alone)
C33_BuildAndEngineClassified ==
  \A p \in Procs :
    (/\ resp[p].op \in {"new", "query"} /\ ~resp[p].ok
     /\ ~Mentions(resp[p].err, {"get columns", "scan", "open schema database (r/o)"}))
      => Classified(resp[p].err)


\* The text runs to the end of its rows on the engine without an error.
RunsClean(schema, query) ==
  /\ query \notin InvalidQueries \cup LateFailQueries
  /\ ~(query \in WriteQueries /\ OpenMode = "ro")

\* The cache entry is what the engine gives for its key when the run is not
\* cut short.
CompleteEntry(r, i) ==
  /\ RunsClean(runners[r].schema, runners[r].cache[i].key)
  /\ runners[r].cache[i].value = FullResult(runners[r].schema, runners[r].cache[i].key)

\* C34: every entry of a Runner's result cache is the complete result of an
\* execution that finished without error; a row set cut short by an error or
\* an elapsed deadline is never stored.
C34_CacheHoldsCompleteResults ==
  \A r \in 1..Len(runners) : \A i \in 1..Len(runners[r].cache) : CompleteEntry(r, i)


\* The step in which the Query call of goroutine p returns an error.
QueryFails(p) == QueryReturns(p) /\ ~resp'[p].ok

\* The Query call of goroutine p has failed, its text is still not cached,
\* and the same text on the same Runner is on the engine again.
RunsAgain(p, w) ==
  /\ resp[p].op = "query" /\ ~resp[p].ok /\ pc[p] = "idle"
  /\ Mentions(resp[p].err, {"QueryError"})
  /\ resp[p].query \notin CacheKeys(runners[resp[p].runner].cache)
  /\ w # p /\ stage[w] = "query" /\ pc[w] \in {"queryContext", "queryColumns", "queryNext"}
  /\ lrunner[w] = resp[p].runner /\ lquery[w] = resp[p].query

C35_Step ==
  /\ \A p \in Procs : QueryFails(p) => resp'[p].data.nil /\ runners' = runners
  /\ runners' # runners =>
       \E p \in Procs : \/ QueryReturns(p) /\ resp'[p].ok
                        \/ stage[p] = "new" /\ pc[p] = "newReturn"

\* C35: a Query call that returns an error returns no result and leaves the
\* Runner's result cache as it was: only a call that returns a result touches
\* the cache, so a failure is never cached and the same text runs on the engine
\* again at the next call.
C35_FailureNotCached == [][C35_Step]_vars

C35_Witness == \E p, w \in Procs : RunsAgain(p, w)


AllReturned == \A p \in Procs : pc[p] = "idle"

\* C36: every database handle the core opens is closed: once NewSQLRunner and
\* initialize have returned (and no Query is in progress) no handle is open,
\* however many Runners were constructed.
C36_HandlesClosed == AllReturned => openDbs = 0

\* (what holds instead: initialize closes its handle on every path, and one
\* handle stays open for each Runner constructed)
C36_OneHandlePerRunner ==
  /\ AllReturned => openDbs = Len(runners)
  /\ \A p \in Procs : pc[p] \in {"gsiAfter", "sfWait"} => ~HoldsBuildDb(p)


\* Runner id is a Runner for the schema, and the schema's artifact is at its
\* final path.
GoodRunner(id, schema) ==
  /\ id # NoRunner /\ id \in 1..Len(runners)
  /\ runners[id].schema = schema
  /\ Exists(schemaFilename(schema))

\* NewSQLRunner has returned to findRunner's function, or findRunner to Serve.
FindRunnerReturned(p) == op[p] = "serve" /\ pc[p] \in {"fnReturn", "afterFind"}

ReturnedRunnerIsGood ==
  /\ \A p \in Procs :
       FindRunnerReturned(p) =>
         IF lerr[p] = NoErr THEN GoodRunner(lrunner[p], lschema[p])
         ELSE lrunner[p] = NoRunner
  /\ \A p \in Procs :
       resp[p].op = "new" =>
         IF resp[p].ok THEN GoodRunner(resp[p].runner, resp[p].schema)
         ELSE resp[p].runner = NoRunner

\* The step in which the NewSQLRunner call of goroutine p returns an error.
ConstructionFails(p) ==
  /\ pc[p] = "newReturn"
  /\ pc'[p] # "newReturn"
  /\ lerr[p] # NoErr

NothingRetained == runners' = runners /\ runnersMap' = runnersMap /\ resolved' = resolved

C37_Step ==
  /\ ReturnedRunnerIsGood'
  /\ \A p \in Procs : ConstructionFails(p) => NothingRetained

\* C37: when findRunner or NewSQLRunner returns without error the Runner is
\* there and the artifact of its schema is at its final path; when they return
\* an error no Runner is returned, and none is constructed or kept.
C37_RunnerOrError == [][C37_Step]_vars

C37_Witness ==
  \E p, w \in Procs :
    /\ FindRunnerReturned(p) /\ pc[p] = "afterFind" /\ lerr[p] # NoErr
    /\ FindRunnerReturned(w) /\ pc[w] = "afterFind" /\ lerr[w] = NoErr

=============================================================================
